---- MODULE Spec2Model ----
(***************************************************************************)
(* Order lifecycle, matching engine and account ledger of the stock        *)
(* exchange back end (apps/stock-back-end).  One symbol is modelled.       *)
(* Money is counted in whole currency units; a price is a positive         *)
(* integer, so price * quantity is exact.                                  *)
(*                                                                         *)
(* Granularity.  A Prisma transaction runs under ReadCommitted, so other   *)
(* transactions may commit between the statements of one transaction.      *)
(* Every handler is therefore split at the read whose result it later      *)
(* writes back:                                                            *)
(*   pushIntoOrderQueue : SubmitRead  (checks and reads)   -> SubmitWrite  *)
(*   cancelOrder        : CancelRead  (findUnique, checks) -> CancelTx     *)
(*   handleOrderSync    : MatchBegin  (load order, book)   -> MatchCommit  *)
(* The order-processing consumer has concurrency 1, so at most one         *)
(* matching transaction is in flight.                                      *)
(* The consumer may take any waiting job (priorities only bias the order). *)
(* A job whose transaction throws fails and is not run again: the job is   *)
(* added with { priority } only, and executeWithRetry retries transaction  *)
(* conflicts and deadlocks, not ledger errors.                             *)
(* SpecDup adds the redelivery of a job by the queue (at least once).      *)
(***************************************************************************)
EXTENDS Integers, Sequences, FiniteSets, TLC

\* ---------------------------------------------------------------- bounds
NumUsers == 2
MaxPrice == 2
MaxQty == 2
MaxOrders == 3
MaxApiOrders == 2
MaxSubmits == 2
MaxCancels == 1
InitBalance == 4
InitQuantity == 2
MaxBatches == 2
MaxBatchTrades == 2
MaxNow == 3
\* the wall clock of the candle builder stops after this many minutes
MaxMinutes == 66
\* the minutes the process may stay down before it is started again
Downtimes == {62}
\* the update-market-data jobs handled in a run
MaxRequests == 3
\* the batches and the minutes of a run of the candle builder alone
MaxCandleBatches == 3
MaxCandleMinutes == 4
\* the orders and the limit prices of a run about market orders
MaxMarketOrders == 2
MaxMarketPrice == 3

\* price used when both sides are MARKET and no trade exists yet
DefaultTradePrice == 150

Users == 1..NumUsers
Prices == 1..MaxPrice
Qtys == 1..MaxQty
OrderTypes == {"BUY", "SELL"}
OrderMethods == {"LIMIT", "MARKET"}
NoPrice == 0
None == [orderId |-> 0]
\* the attempts option of a process-batch-trade job
tradeAttempts == 5
\* one minute of the wall clock, in instants (60 * 1000 ms in the code)
MinuteLen == 2
\* no accumulator for the symbol in currentMinuteData
NoMinuteData ==
  [timestamp |-> -1, open |-> 0, high |-> 0, low |-> 0, close |-> 0, volume |-> 0]
\* executeWithRetry's default number of attempts
maxRetries == 3
\* the updateType of an update-market-data job; the update key is symbol + updateType
UpdateTypes == {"price", "market"}
\* what an attempt of a transaction can throw: a Prisma error with its code,
\* or a plain Error, whose message may contain 'deadlock'
Errors ==
  {[code |-> "P2034", deadlock |-> FALSE], [code |-> "P2002", deadlock |-> FALSE],
   [code |-> "P2025", deadlock |-> FALSE], [code |-> "Error", deadlock |-> TRUE],
   [code |-> "Error", deadlock |-> FALSE]}
NoError == [code |-> "none", deadlock |-> FALSE]
\* executeWithRetry before any attempt has failed
NoRetry == [failed |-> 0, lastError |-> NoError]

VARIABLES
  users,       \* users[u] = [balance, frozenBalance]
  positions,   \* positions[u] = [quantity, frozenQuantity]
  orders,      \* table "orders": orders[i].id = i, created in this order
  trades,      \* table "trades", in creation order
  orderQueue,  \* process-order jobs waiting: set of [orderId, priority]
  tradeQueue,  \* the process-batch-trade jobs, in the order they were added
  submits,     \* pushIntoOrderQueue calls between their reads and their write
  cancels,     \* cancelOrder calls between findUnique and their transaction
  matching,    \* the handleOrderSync transaction in flight, or None
  resp,        \* the last response of cancelOrder, or the last failed job
  retry,       \* executeWithRetry around the transaction in flight
  now,         \* the wall clock (Date.now()), in instants
  processedBatches,   \* TradeProcessor.processedBatches: set of batch ids
  tradeCompleted,     \* the tradeCompleted events broadcast so far
  marketDataQueue,    \* update-market-data jobs waiting
  currentMinuteData,  \* KlineService.currentMinuteData of the symbol
  pendingSaveQueue,   \* KlineService.pendingSaveQueue: closed accumulators, in insertion order
  processedKlineData, \* KlineService.processedKlineData: the minutes already saved
  klineBase,          \* table klineBase: the persisted 1-minute candles
  klineAggregated,    \* table klineAggregated: the persisted higher-period candles
  requests,           \* per update key, the update-market-data jobs handled so far
  lastPayloads,       \* MarketDataProcessor.lastPayloads (0: no entry)
  debounceTimers,     \* MarketDataProcessor.debounceTimers: a timer id (0: no entry)
  maxWaitTimers,      \* MarketDataProcessor.maxWaitTimers: a timer id (0: no entry)
  timers,             \* the timers set and neither fired nor cleared
  flushes,            \* the timer callbacks waiting for broadcastMarketDataUpdate
  emitted             \* per update key, the payloads broadcast so far

engineVars == <<users, positions, orders, trades, orderQueue, tradeQueue,
                submits, cancels, matching, resp>>

\* the state of the market-data processor
broadcastVars == <<requests, lastPayloads, debounceTimers, maxWaitTimers, timers,
                   flushes, emitted>>

\* the state downstream of the engine, which no engine action touches
downstreamVars == <<now, processedBatches, tradeCompleted, marketDataQueue,
                    currentMinuteData, pendingSaveQueue,
                    processedKlineData, klineBase, klineAggregated,
                    broadcastVars>>

vars == <<engineVars, retry, downstreamVars>>

\* ---------------------------------------------------------------- helpers
Min(a, b) == IF a <= b THEN a ELSE b

\* the sum of f[x] over x in S
RECURSIVE SumOver(_, _)
SumOver(S, f) ==
  IF S = {} THEN 0
  ELSE LET x == CHOOSE y \in S : TRUE IN f[x] + SumOver(S \ {x}, f)

\* Math.round(a / b) for a >= 0, b > 0
RoundDiv(a, b) == (2 * a + b) \div (2 * b)

Terminal == {"FILLED", "CANCELLED"}
Resting == {"OPEN", "PARTIALLY_FILLED"}
NonTerminal == {"PENDING", "OPEN", "PARTIALLY_FILLED"}

\* A transaction's view of the database; ok = FALSE once a statement threw.
Db == [users |-> users, positions |-> positions, orders |-> orders,
       trades |-> trades, ok |-> TRUE]

Throw(db) == [db EXCEPT !.ok = FALSE]

\* ---------------------------------------------------------------- UserService
\* adjustFrozenBalance, first half: findUnique and the range checks on the
\* value read.  TRUE when the call goes on to its update.
adjustFrozenBalanceCheck(db, userId, amountChange) ==
  LET newFrozenBalance == db.users[userId].frozenBalance + amountChange IN
  /\ amountChange # 0
  /\ newFrozenBalance >= 0
  /\ newFrozenBalance <= db.users[userId].balance

\* adjustFrozenBalance, second half: updateMany with the where condition built
\* from newFrozenBalance as computed from the earlier read.
adjustFrozenBalanceUpdate(db, userId, amountChange, newFrozenBalance) ==
  LET u == db.users[userId]
      hit == IF amountChange > 0 THEN u.balance >= newFrozenBalance
             ELSE u.frozenBalance >= -amountChange
  IN IF ~hit THEN Throw(db)
     ELSE [db EXCEPT !.users[userId].frozenBalance = @ + amountChange]

\* adjustFrozenBalance with its read and its update at the same instant
adjustFrozenBalance(db, userId, amountChange) ==
  IF ~db.ok THEN db
  ELSE IF ~adjustFrozenBalanceCheck(db, userId, amountChange) THEN Throw(db)
  ELSE adjustFrozenBalanceUpdate(db, userId, amountChange,
         db.users[userId].frozenBalance + amountChange)

unfreezeBalance(db, userId, amount) ==
  IF ~db.ok THEN db
  ELSE IF amount <= 0 THEN Throw(db)
  ELSE adjustFrozenBalance(db, userId, -amount)

payBalance(db, userId, amount) ==
  IF ~db.ok THEN db
  ELSE IF amount <= 0 THEN Throw(db)
  ELSE IF db.users[userId].frozenBalance < amount THEN Throw(db)
  ELSE [db EXCEPT !.users[userId].balance = @ - amount,
                  !.users[userId].frozenBalance = @ - amount]

\* variant of creditBalance that leaves the seller unpaid
creditBalanceSkipped(db, userId, amount) ==
  db

\* db.user.update({ balance: { increment: tradeAmount } }) for the seller
creditBalance(db, userId, amount) ==
  IF ~db.ok THEN db
  ELSE [db EXCEPT !.users[userId].balance = @ + amount]

adjustFrozenQuantityCheck(db, userId, quantityChange) ==
  LET newFrozenQuantity == db.positions[userId].frozenQuantity + quantityChange IN
  /\ quantityChange # 0
  /\ newFrozenQuantity >= 0
  /\ newFrozenQuantity <= db.positions[userId].quantity

\* variant of adjustFrozenQuantityUpdate that ignores an update of no row
adjustFrozenQuantityUpdateUnchecked(db, userId, quantityChange) ==
  LET p == db.positions[userId]
      hit == IF quantityChange > 0
             THEN p.quantity >= p.frozenQuantity + quantityChange
             ELSE p.frozenQuantity >= -quantityChange
  IN IF ~hit THEN db
     ELSE [db EXCEPT !.positions[userId].frozenQuantity = @ + quantityChange]

\* the raw UPDATE (freeze) or updateMany (unfreeze); both conditions are on
\* the row's columns at the time of the update
adjustFrozenQuantityUpdate(db, userId, quantityChange) ==
  LET p == db.positions[userId]
      hit == IF quantityChange > 0
             THEN p.quantity >= p.frozenQuantity + quantityChange
             ELSE p.frozenQuantity >= -quantityChange
  IN IF ~hit THEN Throw(db)
     ELSE [db EXCEPT !.positions[userId].frozenQuantity = @ + quantityChange]

adjustFrozenQuantity(db, userId, quantityChange) ==
  IF ~db.ok THEN db
  ELSE IF ~adjustFrozenQuantityCheck(db, userId, quantityChange) THEN Throw(db)
  ELSE adjustFrozenQuantityUpdate(db, userId, quantityChange)

deductFromFrozenPosition(db, userId, quantity) ==
  IF ~db.ok THEN db
  ELSE IF quantity <= 0 THEN Throw(db)
  ELSE adjustFrozenQuantity(db, userId, -quantity)

getAvailableBalance(us, userId) ==
  LET a == us[userId].balance - us[userId].frozenBalance
  IN IF a > 0 THEN a ELSE 0

getAvailablePosition(ps, userId) ==
  LET a == ps[userId].quantity - ps[userId].frozenQuantity
  IN IF a > 0 THEN a ELSE 0

\* ---------------------------------------------------------------- NegativeDetectionService
\* A failed check makes the caller throw (the transaction rolls back).
checkUserBalance(db, userId) ==
  ~(db.users[userId].balance < 0 \/ db.users[userId].frozenBalance < 0)

checkUserPosition(db, userId) ==
  LET p == db.positions[userId] IN
  ~(p.quantity < 0 \/ p.frozenQuantity < 0 \/ p.quantity - p.frozenQuantity < 0)

\* ---------------------------------------------------------------- OrderService
\* updatePositionInTransaction(db, userId, symbol, BUY, quantity, price)
updatePositionInTransaction(db, userId, quantity) ==
  IF ~db.ok THEN db
  ELSE LET d == [db EXCEPT !.positions[userId].quantity = @ + quantity]
       IN IF checkUserPosition(d, userId) THEN d ELSE Throw(d)

\* unfreezeOrderResources(order, userId, prisma, unfilledQuantity): `order` is
\* the row as the caller holds it, not re-read here.
unfreezeOrderResources(db, order, userId, unfilledQuantity) ==
  IF ~db.ok THEN db
  ELSE IF order.type = "BUY" THEN
    LET remainingFrozen == order.frozenAmount - order.actualUsedAmount
        currentFrozenBalance == db.users[userId].frozenBalance
        actualFrozenAmount == Min(remainingFrozen, currentFrozenBalance)
    IN IF remainingFrozen < 0 THEN Throw(db)
       ELSE IF remainingFrozen > currentFrozenBalance THEN Throw(db)
       ELSE IF remainingFrozen > 0 /\ actualFrozenAmount > 0
            THEN unfreezeBalance(db, userId, actualFrozenAmount)
            ELSE db
  ELSE
    LET actualFrozenQuantity ==
          Min(unfilledQuantity, db.positions[userId].frozenQuantity)
    IN IF unfilledQuantity > 0 /\ actualFrozenQuantity > 0
       THEN adjustFrozenQuantity(db, userId, -actualFrozenQuantity)
       ELSE db

\* updateUserBalances, after payBalance (d1): a LIMIT buy order that is now
\* completely filled gets the rest of its frozenAmount released
releaseOnFullFill(d1, buyOrder) ==
  IF ~d1.ok THEN d1
  ELSE
    LET buyer == buyOrder.userId
        currentOrder == d1.orders[buyOrder.id]
        remainingQuantity == currentOrder.quantity - currentOrder.filledQuantity
        unfreezeDec == currentOrder.frozenAmount - currentOrder.actualUsedAmount
        maxUnfreeze == d1.users[buyer].frozenBalance
    IN IF /\ remainingQuantity <= 0 /\ buyOrder.method # "MARKET"
          /\ unfreezeDec > 0 /\ Min(unfreezeDec, maxUnfreeze) > 0
       THEN unfreezeBalance(d1, buyer, Min(unfreezeDec, maxUnfreeze))
       ELSE d1

\* updateUserBalances, the closing negative checks on both users (d5)
negativeChecks(d5, buyer, seller) ==
  IF ~d5.ok THEN d5
  ELSE IF /\ checkUserBalance(d5, buyer) /\ checkUserPosition(d5, buyer)
          /\ checkUserBalance(d5, seller) /\ checkUserPosition(d5, seller)
       THEN d5
       ELSE Throw(d5)

\* updateUserBalances(buyOrder, sellOrder, price, quantity, prisma): buyOrder
\* and sellOrder are the caller's objects; the rows are re-read from db.
\* In order: payBalance, release on full fill, deductFromFrozenPosition,
\* seller credit, updatePositionInTransaction(BUY), negative checks.
updateUserBalances(db, buyOrder, sellOrder, price, quantity) ==
  IF ~db.ok THEN db
  ELSE IF db.users[buyOrder.userId].frozenBalance < price * quantity THEN Throw(db)
  ELSE negativeChecks(
         updatePositionInTransaction(
           creditBalance(
             deductFromFrozenPosition(
               releaseOnFullFill(
                 payBalance(db, buyOrder.userId, price * quantity),
                 buyOrder),
               sellOrder.userId, quantity),
             sellOrder.userId, price * quantity),
           buyOrder.userId, quantity),
         buyOrder.userId, sellOrder.userId)

\* variant of IsOpposite without the userId: { not: newOrder.userId } filter
IsOppositeAnyUser(newOrder, o) ==
  /\ o.type = (IF newOrder.type = "BUY" THEN "SELL" ELSE "BUY")
  /\ o.status \in Resting
  /\ (newOrder.method = "LIMIT" =>
        IF newOrder.type = "BUY" THEN o.price <= newOrder.price
        ELSE o.price >= newOrder.price)

\* whereCondition of the book query for newOrder
IsOpposite(newOrder, o) ==
  /\ o.type = (IF newOrder.type = "BUY" THEN "SELL" ELSE "BUY")
  /\ o.status \in Resting
  /\ o.userId # newOrder.userId
  /\ (newOrder.method = "LIMIT" =>
        IF newOrder.type = "BUY" THEN o.price <= newOrder.price
        ELSE o.price >= newOrder.price)

\* variant of BookBefore with the price direction of the other side
BookBeforeReversed(newOrder, a, b) ==
  \/ (IF newOrder.type = "BUY" THEN a.price > b.price ELSE a.price < b.price)
  \/ (a.price = b.price /\ a.id < b.id)

\* orderBy: price asc for an incoming BUY, desc for an incoming SELL, then
\* createdAt asc (rows are created in id order)
BookBefore(newOrder, a, b) ==
  \/ (IF newOrder.type = "BUY" THEN a.price < b.price ELSE a.price > b.price)
  \/ (a.price = b.price /\ a.id < b.id)

RECURSIVE SortBook(_, _)
SortBook(newOrder, S) ==
  IF S = {} THEN <<>>
  ELSE LET first == CHOOSE a \in S : \A b \in S \ {a} : BookBefore(newOrder, a, b)
       IN <<first>> \o SortBook(newOrder, S \ {first})

\* prisma.order.findMany({ where: whereCondition, orderBy })
oppositeOrders(os, newOrder) ==
  SortBook(newOrder, {os[i] : i \in {j \in 1..Len(os) : IsOpposite(newOrder, os[j])}})

\* variant: two LIMIT orders trade at the incoming order's price
tradePriceOfIncoming(db, newOrder, oppositeOrder) ==
  IF newOrder.method = "MARKET" /\ oppositeOrder.method = "MARKET"
  THEN IF Len(db.trades) > 0 THEN db.trades[Len(db.trades)].price
       ELSE DefaultTradePrice
  ELSE IF newOrder.method = "MARKET" THEN oppositeOrder.price
  ELSE newOrder.price

\* price of one fill
tradePriceOf(db, newOrder, oppositeOrder) ==
  IF newOrder.method = "MARKET" /\ oppositeOrder.method = "MARKET"
  THEN IF Len(db.trades) > 0 THEN db.trades[Len(db.trades)].price
       ELSE DefaultTradePrice
  ELSE IF newOrder.method = "MARKET" THEN oppositeOrder.price
  ELSE IF oppositeOrder.method = "MARKET" THEN newOrder.price
  ELSE oppositeOrder.price

\* quantity-weighted average fill price, in hundredths, rounded as Math.round
newAvgPrice(prevAvg, prevFilledQty, tradePrice, tradeQuantity, newFilledQty) ==
  IF prevFilledQty > 0
  THEN RoundDiv(prevAvg * prevFilledQty + 100 * tradePrice * tradeQuantity,
                newFilledQty)
  ELSE 100 * tradePrice

\* variant: the increment is the price alone
usedAmountIncrementPriceOnly(tradePrice, tradeQuantity) == tradePrice

\* newOrderUsedAmountIncrement and oppositeOrderUsedAmountIncrement: what one
\* fill adds to the actualUsedAmount of each of its two orders
usedAmountIncrement(tradePrice, tradeQuantity) == tradePrice * tradeQuantity

\* One fill: the trade row, the updates of both orders, updateUserBalances and
\* the loop's locals
fill(m, newOrder, oppositeOrder, tradeQuantity, tradePrice) ==
  LET buyOrder == IF newOrder.type = "BUY" THEN newOrder ELSE oppositeOrder
      sellOrder == IF newOrder.type = "SELL" THEN newOrder ELSE oppositeOrder
      newOrderFilledQty == m.filledQuantity + tradeQuantity
      oppositeOrderFilledQty == oppositeOrder.filledQuantity + tradeQuantity
      newOrderNewAvgPrice ==
        newAvgPrice(m.cumulativeAvgPrice, m.cumulativeFilledQty, tradePrice,
                    tradeQuantity, newOrderFilledQty)
      oppositeOrderNewAvgPrice ==
        newAvgPrice(oppositeOrder.avgFilledPrice, oppositeOrder.filledQuantity,
                    tradePrice, tradeQuantity, oppositeOrderFilledQty)
      d1 == [m.db EXCEPT
               !.trades = Append(@, [id |-> Len(m.db.trades) + 1,
                                     buyOrderId |-> buyOrder.id,
                                     sellOrderId |-> sellOrder.id,
                                     price |-> tradePrice,
                                     quantity |-> tradeQuantity]),
               !.orders[newOrder.id] =
                  [@ EXCEPT !.filledQuantity = newOrderFilledQty,
                            !.status = IF newOrderFilledQty >= newOrder.quantity
                                       THEN "FILLED" ELSE "PARTIALLY_FILLED",
                            !.avgFilledPrice = newOrderNewAvgPrice,
                            !.actualUsedAmount =
                               @ + usedAmountIncrement(tradePrice, tradeQuantity)],
               !.orders[oppositeOrder.id] =
                  [@ EXCEPT !.filledQuantity = oppositeOrderFilledQty,
                            !.status = IF oppositeOrderFilledQty >= oppositeOrder.quantity
                                       THEN "FILLED" ELSE "PARTIALLY_FILLED",
                            !.avgFilledPrice = oppositeOrderNewAvgPrice,
                            !.actualUsedAmount =
                               @ + usedAmountIncrement(tradePrice, tradeQuantity)]]
  IN [m EXCEPT
        !.db = updateUserBalances(d1, buyOrder, sellOrder, tradePrice, tradeQuantity),
        !.positionChanges =
           [@ EXCEPT ![sellOrder.userId] = @ - tradeQuantity,
                     ![buyOrder.userId] = @ + tradeQuantity],
        !.cumulativeFilledQty = newOrderFilledQty,
        !.cumulativeAvgPrice = newOrderNewAvgPrice,
        !.filledQuantity = @ + tradeQuantity,
        !.remainingQuantity = @ - tradeQuantity]

\* variant: the seller's frozen shares are not looked at
tradeQuantityOfNoSellerCheck(m, newOrder, oppositeOrder, committedPositions) ==
  Min(m.remainingQuantity, oppositeOrder.quantity - oppositeOrder.filledQuantity)

\* tradeQuantity of one iteration: min(remaining, candidate's unfilled, the
\* seller's frozen shares as positionService reads them plus positionChanges)
tradeQuantityOf(m, newOrder, oppositeOrder, committedPositions) ==
  LET sellerId == IF newOrder.type = "SELL" THEN newOrder.userId
                  ELSE oppositeOrder.userId
  IN Min(Min(m.remainingQuantity,
             oppositeOrder.quantity - oppositeOrder.filledQuantity),
         committedPositions[sellerId].frozenQuantity + m.positionChanges[sellerId])

\* One iteration of the loop over oppositeOrders.  m holds the transaction
\* (db) and the loop's locals; committedPositions is what positionService,
\* which reads outside the transaction, sees.
matchStep(m, newOrder, oppositeOrder, committedPositions) ==
  IF oppositeOrder.quantity - oppositeOrder.filledQuantity <= 0 THEN m
  ELSE IF tradeQuantityOf(m, newOrder, oppositeOrder, committedPositions) <= 0 THEN m
  ELSE fill(m, newOrder, oppositeOrder,
            tradeQuantityOf(m, newOrder, oppositeOrder, committedPositions),
            tradePriceOf(m.db, newOrder, oppositeOrder))

RECURSIVE matchLoop(_, _, _, _, _)
matchLoop(m, newOrder, book, k, committedPositions) ==
  IF k > Len(book) \/ ~m.db.ok \/ m.remainingQuantity = 0 THEN m
  ELSE matchLoop(matchStep(m, newOrder, book[k], committedPositions),
                 newOrder, book, k + 1, committedPositions)

\* variant: one batch per trade is handed to the trade queue
finalizeOrderBatchPerTrade(m, db, newOrder) ==
  LET finalStatus ==
        IF newOrder.method = "MARKET"
        THEN IF m.filledQuantity >= newOrder.quantity THEN "FILLED" ELSE "CANCELLED"
        ELSE IF m.filledQuantity >= newOrder.quantity THEN "FILLED"
        ELSE IF m.filledQuantity > 0 THEN "PARTIALLY_FILLED"
        ELSE "OPEN"
      newTrades == SubSeq(m.db.trades, Len(db.trades) + 1, Len(m.db.trades))
  IN [db |-> IF newOrder.method = "MARKET"
             THEN unfreezeOrderResources(m.db, m.db.orders[newOrder.id],
                                         newOrder.userId, m.remainingQuantity)
             ELSE m.db,
      filledQuantity |-> m.filledQuantity, finalStatus |-> finalStatus,
      batch |-> [n \in 1..Len(newTrades) |->
                   [trades |-> <<newTrades[n]>>,
                    totalVolume |-> newTrades[n].quantity]]]

\* variant: a MARKET order is finalised like a LIMIT order
finalizeOrderAsLimit(m, db, newOrder) ==
  LET finalStatus ==
        IF m.filledQuantity >= newOrder.quantity THEN "FILLED"
        ELSE IF m.filledQuantity > 0 THEN "PARTIALLY_FILLED"
        ELSE "OPEN"
      newTrades == SubSeq(m.db.trades, Len(db.trades) + 1, Len(m.db.trades))
  IN [db |-> m.db,
      filledQuantity |-> m.filledQuantity, finalStatus |-> finalStatus,
      batch |-> IF Len(newTrades) > 0
                THEN <<[trades |-> newTrades, totalVolume |-> m.filledQuantity]>>
                ELSE <<>>]

\* matchOrder after its loop (m): the finalisation of a MARKET order and the
\* batch for the trade queue
finalizeOrder(m, db, newOrder) ==
  LET finalStatus ==
        IF newOrder.method = "MARKET"
        THEN IF m.filledQuantity >= newOrder.quantity THEN "FILLED" ELSE "CANCELLED"
        ELSE IF m.filledQuantity >= newOrder.quantity THEN "FILLED"
        ELSE IF m.filledQuantity > 0 THEN "PARTIALLY_FILLED"
        ELSE "OPEN"
      newTrades == SubSeq(m.db.trades, Len(db.trades) + 1, Len(m.db.trades))
  IN [db |-> IF newOrder.method = "MARKET"
             THEN unfreezeOrderResources(m.db, m.db.orders[newOrder.id],
                                         newOrder.userId, m.remainingQuantity)
             ELSE m.db,
      filledQuantity |-> m.filledQuantity, finalStatus |-> finalStatus,
      batch |-> IF Len(newTrades) > 0
                THEN <<[trades |-> newTrades, totalVolume |-> m.filledQuantity]>>
                ELSE <<>>]

\* matchOrder(newOrder, prisma) on the book rows read by its findMany
matchOrder(db, newOrder, book, committedPositions) ==
  finalizeOrder(
    matchLoop([db |-> db, filledQuantity |-> 0,
               remainingQuantity |-> newOrder.quantity,
               positionChanges |-> [u \in Users |-> 0],
               cumulativeFilledQty |-> newOrder.filledQuantity,
               cumulativeAvgPrice |-> newOrder.avgFilledPrice],
              newOrder, book, 1, committedPositions),
    db, newOrder)

\* handleOrderSync after matchOrder (r): the final status update
finalStatusUpdate(r, orderId) ==
  IF r.db.ok /\ r.finalStatus # "OPEN"
  THEN [r EXCEPT !.db.orders[orderId].status = r.finalStatus,
                 !.db.orders[orderId].filledQuantity = r.filledQuantity]
  ELSE r

\* body of the transaction of handleOrderSync after the order was loaded:
\* status OPEN, matchOrder on the updated row, final status
handleOrderSync(db, orderId, book, committedPositions) ==
  finalStatusUpdate(
    matchOrder([db EXCEPT !.orders[orderId].status = "OPEN"],
               [db.orders[orderId] EXCEPT !.status = "OPEN"],
               book, committedPositions),
    orderId)

validateOrderInput(method, price, quantity) ==
  /\ (method = "LIMIT" => price > 0)
  /\ quantity > 0

\* variant of calculateRequiredAmount that takes the price of one share
calculateRequiredAmountOneShare(us, userId, type, method, price, quantity) ==
  IF type = "BUY"
  THEN IF method = "MARKET" THEN getAvailableBalance(us, userId)
       ELSE price
  ELSE 0

calculateRequiredAmount(us, userId, type, method, price, quantity) ==
  IF type = "BUY"
  THEN IF method = "MARKET" THEN getAvailableBalance(us, userId)
       ELSE price * quantity
  ELSE 0

\* TRUE when validateUserResources does not throw
validateUserResources(us, ps, userId, type, quantity, requiredAmount) ==
  IF type = "BUY" THEN getAvailableBalance(us, userId) >= requiredAmount
  ELSE getAvailablePosition(ps, userId) >= quantity

\* ---------------------------------------------------------------- queues
\* QueueService.addBatchTradeProcessing: the jobs added for a sequence of
\* batches [trades, totalVolume]; timestamp is the Date.now() of matchOrder
NewTradeJobs(batches) ==
  [b \in 1..Len(batches) |->
     [trades |-> batches[b].trades, totalVolume |-> batches[b].totalVolume,
      timestamp |-> now, attemptsMade |-> 0, state |-> "waiting",
      redelivered |-> FALSE]]

\* ---------------------------------------------------------------- state machine
Response(op, orderId, userId, result, message) ==
  [op |-> op, orderId |-> orderId, userId |-> userId, result |-> result,
   message |-> message]

NewOrderRow(id, s) ==
  [id |-> id, userId |-> s.userId, type |-> s.type, method |-> s.method,
   price |-> IF s.method = "MARKET" THEN NoPrice ELSE s.price,
   quantity |-> s.quantity, filledQuantity |-> 0, avgFilledPrice |-> 0,
   status |-> "PENDING",
   frozenAmount |-> IF s.type = "BUY" THEN s.requiredAmount ELSE 0,
   actualUsedAmount |-> 0]

Remove(seq, k) == SubSeq(seq, 1, k - 1) \o SubSeq(seq, k + 1, Len(seq))

Init ==
  /\ users = [u \in Users |-> [balance |-> InitBalance, frozenBalance |-> 0]]
  /\ positions = [u \in Users |-> [quantity |-> InitQuantity, frozenQuantity |-> 0]]
  /\ orders = <<>>
  /\ trades = <<>>
  /\ orderQueue = {}
  /\ tradeQueue = <<>>
  /\ submits = <<>>
  /\ cancels = <<>>
  /\ matching = None
  /\ resp = Response("none", 0, 0, "none", "none")
  /\ retry = NoRetry
  /\ now = 0
  /\ processedBatches = {}
  /\ tradeCompleted = <<>>
  /\ marketDataQueue = <<>>
  /\ currentMinuteData = NoMinuteData
  /\ pendingSaveQueue = <<>>
  /\ processedKlineData = {}
  /\ klineBase = {}
  /\ klineAggregated = {}
  /\ requests = [k \in UpdateTypes |-> 0]
  /\ lastPayloads = [k \in UpdateTypes |-> 0]
  /\ debounceTimers = [k \in UpdateTypes |-> 0]
  /\ maxWaitTimers = [k \in UpdateTypes |-> 0]
  /\ timers = {}
  /\ flushes = {}
  /\ emitted = [k \in UpdateTypes |-> <<>>]

\* pushIntoOrderQueue up to the reads of adjustFrozenBalance / adjustFrozenQuantity.
\* A call rejected by its checks changes nothing and is not a step.
SubmitRead(userId, type, method, price, quantity, maxOrders) ==
  LET requiredAmount ==
        calculateRequiredAmount(users, userId, type, method, price, quantity)
      accepted ==
        /\ validateOrderInput(method, price, quantity)
        /\ (type = "BUY" /\ method = "MARKET" => requiredAmount > 0)
        /\ validateUserResources(users, positions, userId, type, quantity,
                                 requiredAmount)
      readOk ==
        IF type = "BUY"
        THEN requiredAmount > 0 /\ adjustFrozenBalanceCheck(Db, userId, requiredAmount)
        ELSE adjustFrozenQuantityCheck(Db, userId, quantity)
  IN
  /\ Len(orders) + Len(submits) < maxOrders
  /\ Len(submits) < MaxSubmits
  /\ accepted
  /\ readOk
  /\ submits' = Append(submits,
       [userId |-> userId, type |-> type, method |-> method,
        price |-> price, quantity |-> quantity,
        requiredAmount |-> requiredAmount,
        newFrozenBalance |-> users[userId].frozenBalance + requiredAmount])
  /\ UNCHANGED <<users, positions, orders, trades, orderQueue, tradeQueue,
                 cancels, matching, resp>>
  /\ UNCHANGED <<retry, downstreamVars>>

\* the conditional update, the commit of the creating transaction and
\* orderQueue.add
SubmitWrite(k) ==
  LET s == submits[k]
      d == IF s.type = "BUY"
           THEN adjustFrozenBalanceUpdate(Db, s.userId, s.requiredAmount,
                                          s.newFrozenBalance)
           ELSE adjustFrozenQuantityUpdate(Db, s.userId, s.quantity)
      id == Len(orders) + 1
  IN
  /\ submits' = Remove(submits, k)
  /\ IF d.ok
     THEN /\ users' = d.users
          /\ positions' = d.positions
          /\ orders' = Append(orders, NewOrderRow(id, s))
          /\ orderQueue' = orderQueue \cup
               {[orderId |-> id, priority |-> IF s.method = "MARKET" THEN 10 ELSE 0]}
     ELSE UNCHANGED <<users, positions, orders, orderQueue>>
  /\ UNCHANGED <<trades, tradeQueue, cancels, matching, resp>>
  /\ UNCHANGED <<retry, downstreamVars>>

\* the consumer takes a job; the transaction loads the order and reads the book
MatchBegin(job) ==
  /\ matching = None
  /\ job \in orderQueue
  /\ orders[job.orderId].status = "PENDING"
  /\ orderQueue' = orderQueue \ {job}
  /\ matching' = [orderId |-> job.orderId,
                  book |-> oppositeOrders(orders,
                             [orders[job.orderId] EXCEPT !.status = "OPEN"])]
  /\ UNCHANGED <<users, positions, orders, trades, tradeQueue, submits, cancels, resp>>
  /\ UNCHANGED <<retry, downstreamVars>>

\* the loop, the finalisation and the commit; a throw rolls everything back
\* and the job fails
MatchCommit ==
  /\ matching # None
  /\ \E r \in {handleOrderSync(Db, matching.orderId, matching.book, positions)} :
     IF r.db.ok
     THEN /\ users' = r.db.users
          /\ positions' = r.db.positions
          /\ orders' = r.db.orders
          /\ trades' = r.db.trades
          /\ tradeQueue' = tradeQueue \o NewTradeJobs(r.batch)
     ELSE UNCHANGED <<users, positions, orders, trades, tradeQueue>>
  /\ matching' = None
  /\ UNCHANGED <<orderQueue, submits, cancels, resp>>
  /\ retry' = NoRetry
  /\ UNCHANGED downstreamVars

\* variant of cancelOrderCheck that looks at the status before the owner
cancelOrderCheckOwnerLast(os, orderId, userId) ==
  IF orderId > Len(os) THEN "NOT_FOUND"
  ELSE IF os[orderId].status = "CANCELLED" THEN "success"
  ELSE IF os[orderId].status = "FILLED" THEN "success"
  ELSE IF os[orderId].userId # userId THEN "FORBIDDEN"
  ELSE IF os[orderId].status # "OPEN" /\ os[orderId].status # "PARTIALLY_FILLED"
       THEN "BAD_REQUEST"
  ELSE "transaction"

\* variant of cancelOrderCheck without the early return for FILLED
cancelOrderCheckNoFilled(os, orderId, userId) ==
  IF orderId > Len(os) THEN "NOT_FOUND"
  ELSE IF os[orderId].userId # userId THEN "FORBIDDEN"
  ELSE IF os[orderId].status = "CANCELLED" THEN "success"
  ELSE IF os[orderId].status # "OPEN" /\ os[orderId].status # "PARTIALLY_FILLED"
       THEN "BAD_REQUEST"
  ELSE "transaction"

\* cancelOrder from findUnique to the status checks: what the call does next
cancelOrderCheck(os, orderId, userId) ==
  IF orderId > Len(os) THEN "NOT_FOUND"
  ELSE IF os[orderId].userId # userId THEN "FORBIDDEN"
  ELSE IF os[orderId].status = "CANCELLED" THEN "success"
  ELSE IF os[orderId].status = "FILLED" THEN "success"
  ELSE IF os[orderId].status # "OPEN" /\ os[orderId].status # "PARTIALLY_FILLED"
       THEN "BAD_REQUEST"
  ELSE "transaction"

\* the message of a response that has one
cancelOrderMessage(os, orderId, userId) ==
  IF cancelOrderCheck(os, orderId, userId) = "success"
  THEN IF os[orderId].status = "CANCELLED" THEN "already cancelled"
       ELSE "already filled"
  ELSE "none"

\* a cancelOrder call that returns or throws before its transaction
CancelReturn(orderId, userId) ==
  /\ cancelOrderCheck(orders, orderId, userId) # "transaction"
  /\ resp' = Response("cancel", orderId, userId,
                      cancelOrderCheck(orders, orderId, userId),
                      cancelOrderMessage(orders, orderId, userId))
  /\ UNCHANGED <<users, positions, orders, trades, orderQueue, tradeQueue,
                 submits, cancels, matching>>
  /\ UNCHANGED <<retry, downstreamVars>>

\* a cancelOrder call that goes on to its transaction, holding the row it read
CancelRead(orderId, userId) ==
  /\ cancelOrderCheck(orders, orderId, userId) = "transaction"
  /\ Len(cancels) < MaxCancels
  /\ cancels' = Append(cancels, orders[orderId])
  /\ UNCHANGED <<users, positions, orders, trades, orderQueue, tradeQueue,
                 submits, matching, resp>>
  /\ UNCHANGED <<retry, downstreamVars>>

\* the transaction of cancelOrder, working from the row read earlier;
\* observed = the response is recorded in resp
CancelTx(k, observed) ==
  LET order == cancels[k]
      unfilledQuantity == order.quantity - order.filledQuantity
      d0 == [Db EXCEPT !.orders[order.id].status = "CANCELLED"]
      d == unfreezeOrderResources(d0, order, order.userId, unfilledQuantity)
  IN
  /\ cancels' = Remove(cancels, k)
  /\ IF d.ok
     THEN /\ users' = d.users
          /\ positions' = d.positions
          /\ orders' = d.orders
     ELSE UNCHANGED <<users, positions, orders>>
  /\ resp' = IF observed
             THEN Response("cancel", order.id, order.userId,
                           IF d.ok THEN "success" ELSE "ERROR", "none")
             ELSE resp
  /\ UNCHANGED <<trades, orderQueue, tradeQueue, submits, matching>>
  /\ UNCHANGED <<retry, downstreamVars>>

\* Spec: the engine under every interleaving; responses are not recorded
Next ==
  \/ \E u \in Users, t \in OrderTypes, q \in Qtys :
       \/ \E p \in Prices : SubmitRead(u, t, "LIMIT", p, q, MaxOrders)
       \/ SubmitRead(u, t, "MARKET", NoPrice, q, MaxOrders)
  \/ \E k \in 1..Len(submits) : SubmitWrite(k)
  \/ \E job \in orderQueue : MatchBegin(job)
  \/ MatchCommit
  \/ \E i \in 1..MaxOrders, u \in Users : CancelRead(i, u)
  \/ \E k \in 1..Len(cancels) : CancelTx(k, FALSE)

Spec == Init /\ [][Next]_vars

\* SpecApi: the same engine with every cancelOrder response recorded
NextApi ==
  \/ \E u \in Users, t \in OrderTypes, q \in Qtys :
       \/ \E p \in Prices : SubmitRead(u, t, "LIMIT", p, q, MaxApiOrders)
       \/ SubmitRead(u, t, "MARKET", NoPrice, q, MaxApiOrders)
  \/ \E k \in 1..Len(submits) : SubmitWrite(k)
  \/ \E job \in orderQueue : MatchBegin(job)
  \/ MatchCommit
  \/ \E i \in 1..(MaxApiOrders + 1), u \in Users : CancelReturn(i, u)
  \/ \E i \in 1..MaxApiOrders, u \in Users : CancelRead(i, u)
  \/ \E k \in 1..Len(cancels) : CancelTx(k, TRUE)

SpecApi == Init /\ [][NextApi]_vars

\* Bull delivers a job at least once: a job that stalled, or whose completion
\* was not acknowledged, is put back on the queue and handed to the consumer
\* again
Redeliver(orderId) ==
  /\ orderId \in 1..Len(orders)
  /\ \A job \in orderQueue : job.orderId # orderId
  /\ orderQueue' = orderQueue \cup
       {[orderId |-> orderId,
         priority |-> IF orders[orderId].method = "MARKET" THEN 10 ELSE 0]}
  /\ UNCHANGED <<users, positions, orders, trades, tradeQueue, submits, cancels,
                 matching, resp>>
  /\ UNCHANGED <<retry, downstreamVars>>

\* variant: the consumer starts matching whatever the order's status
MatchRejectRuns(job) ==
  /\ matching = None
  /\ job \in orderQueue
  /\ orders[job.orderId].status # "PENDING"
  /\ orderQueue' = orderQueue \ {job}
  /\ matching' = [orderId |-> job.orderId,
                  book |-> oppositeOrders(orders,
                             [orders[job.orderId] EXCEPT !.status = "OPEN"])]
  /\ UNCHANGED <<users, positions, orders, trades, tradeQueue, submits, cancels, resp>>
  /\ UNCHANGED <<retry, downstreamVars>>

\* the consumer takes the job of an order that is not PENDING: handleOrderSync
\* throws after loading the order, before any write, and the job fails with
\* the status in its reason
MatchReject(job) ==
  /\ matching = None
  /\ job \in orderQueue
  /\ orders[job.orderId].status # "PENDING"
  /\ orderQueue' = orderQueue \ {job}
  /\ resp' = Response("process-order", job.orderId, orders[job.orderId].userId,
                      "FAILED", orders[job.orderId].status)
  /\ UNCHANGED <<users, positions, orders, trades, tradeQueue, submits, cancels,
                 matching>>
  /\ UNCHANGED <<retry, downstreamVars>>

\* variant: every error is retried
isRetryableErrorAny(error) == TRUE

isRetryableError(error) ==
  error.code = "P2034" \/ error.code = "P2002" \/ error.deadlock

\* the catch block of executeWithRetry for the error of attempt number attempt
executeWithRetryCatch(attempt, error) ==
  IF attempt = maxRetries \/ ~isRetryableError(error) THEN "throw" ELSE "retry"

\* An attempt of the matching transaction fails with an error of the database
\* and is rolled back.  executeWithRetry either runs the operation again after
\* its backoff (the order is loaded and the book read afresh) or rethrows, and
\* then the job fails with that error.
MatchFail(error) ==
  /\ matching # None
  /\ IF executeWithRetryCatch(retry.failed + 1, error) = "retry"
     THEN /\ retry' = [failed |-> retry.failed + 1, lastError |-> error]
          /\ matching' = [orderId |-> matching.orderId,
                          book |-> oppositeOrders(orders,
                                     [orders[matching.orderId] EXCEPT !.status = "OPEN"])]
          /\ resp' = resp
     ELSE /\ retry' = NoRetry
          /\ matching' = None
          /\ resp' = Response("process-order", matching.orderId,
                              orders[matching.orderId].userId, "FAILED",
                              [error |-> error, attempts |-> retry.failed + 1])
  /\ UNCHANGED <<users, positions, orders, trades, orderQueue, tradeQueue,
                 submits, cancels>>
  /\ UNCHANGED downstreamVars

\* An attempt fails after matchOrder has returned, at the final status update
\* or at the commit: the transaction is rolled back, but the batch-trade job
\* matchOrder added to the trade queue stays there.
MatchFailEnqueued(error) ==
  /\ matching # None
  /\ \E r \in {handleOrderSync(Db, matching.orderId, matching.book, positions)} :
       /\ r.db.ok
       /\ r.batch # <<>>
       /\ tradeQueue' = tradeQueue \o NewTradeJobs(r.batch)
  /\ IF executeWithRetryCatch(retry.failed + 1, error) = "retry"
     THEN /\ retry' = [failed |-> retry.failed + 1, lastError |-> error]
          /\ matching' = [orderId |-> matching.orderId,
                          book |-> oppositeOrders(orders,
                                     [orders[matching.orderId] EXCEPT !.status = "OPEN"])]
          /\ resp' = resp
     ELSE /\ retry' = NoRetry
          /\ matching' = None
          /\ resp' = Response("process-order", matching.orderId,
                              orders[matching.orderId].userId, "FAILED",
                              [error |-> error, attempts |-> retry.failed + 1])
  /\ UNCHANGED <<users, positions, orders, trades, orderQueue, submits, cancels>>
  /\ UNCHANGED downstreamVars

\* SpecRetry: the engine with attempts of the matching transaction failing
NextRetry ==
  \/ \E u \in Users, t \in OrderTypes, q \in Qtys :
       \/ \E p \in Prices : SubmitRead(u, t, "LIMIT", p, q, MaxApiOrders)
       \/ SubmitRead(u, t, "MARKET", NoPrice, q, MaxApiOrders)
  \/ \E k \in 1..Len(submits) : SubmitWrite(k)
  \/ \E job \in orderQueue : MatchBegin(job)
  \/ MatchCommit
  \/ \E error \in Errors : MatchFail(error)
  \/ \E error \in Errors : MatchFailEnqueued(error)

SpecRetry == Init /\ [][NextRetry]_vars

\* SpecDup: the engine with jobs delivered more than once
NextDup ==
  \/ \E u \in Users, t \in OrderTypes, q \in Qtys :
       \/ \E p \in Prices : SubmitRead(u, t, "LIMIT", p, q, MaxApiOrders)
       \/ SubmitRead(u, t, "MARKET", NoPrice, q, MaxApiOrders)
  \/ \E k \in 1..Len(submits) : SubmitWrite(k)
  \/ \E i \in 1..MaxApiOrders : Redeliver(i)
  \/ \E job \in orderQueue : MatchBegin(job)
  \/ \E job \in orderQueue : MatchReject(job)
  \/ MatchCommit
  \/ \E i \in 1..MaxApiOrders, u \in Users : CancelRead(i, u)
  \/ \E k \in 1..Len(cancels) : CancelTx(k, FALSE)

SpecDup == Init /\ [][NextDup]_vars

\* ---------------------------------------------------------------- trade processor
\* Math.floor(t / (60 * 1000)) * (60 * 1000)
minuteOf(t) == (t \div MinuteLen) * MinuteLen

\* Map.set on pendingSaveQueue, keyed by the accumulator's minute
PendingSet(queue, minuteData) ==
  IF \E n \in 1..Len(queue) : queue[n].timestamp = minuteData.timestamp
  THEN [n \in 1..Len(queue) |->
          IF queue[n].timestamp = minuteData.timestamp THEN minuteData ELSE queue[n]]
  ELSE Append(queue, minuteData)

\* KlineService.handlePriceUpdate on k = [currentMinuteData, pendingSaveQueue]
handlePriceUpdate(k, price, volume, timestamp) ==
  LET minuteTimestamp == minuteOf(timestamp)
      minuteData == k.currentMinuteData
  IN IF minuteData = NoMinuteData \/ minuteData.timestamp # minuteTimestamp
     THEN [currentMinuteData |->
             [timestamp |-> minuteTimestamp, open |-> price, high |-> price,
              low |-> price, close |-> price, volume |-> volume],
           pendingSaveQueue |->
             IF minuteData # NoMinuteData /\ minuteData.timestamp < minuteTimestamp
             THEN PendingSet(k.pendingSaveQueue, minuteData)
             ELSE k.pendingSaveQueue]
     ELSE [currentMinuteData |->
             [minuteData EXCEPT !.high = IF price > @ THEN price ELSE @,
                                !.low = Min(@, price),
                                !.close = price,
                                !.volume = @ + volume],
           pendingSaveQueue |-> k.pendingSaveQueue]

\* `${symbol}_${timestamp}_${trades.length}_${totalVolume}`
batchIdOf(job) == <<job.timestamp, Len(job.trades), job.totalVolume>>

RECURSIVE totalValueOf(_)
totalValueOf(ts) ==
  IF ts = <<>> THEN 0
  ELSE ts[1].price * ts[1].quantity + totalValueOf(Tail(ts))

\* a job whose handler returned is completed; one whose handler threw is
\* attempted again after its backoff until its attempts are used up
jobAfter(job, threw) ==
  IF ~threw THEN [job EXCEPT !.state = "completed"]
  ELSE [job EXCEPT !.attemptsMade = @ + 1,
                   !.state = IF job.attemptsMade + 1 < tradeAttempts
                             THEN "waiting" ELSE "failed"]

\* the job has been handed to the handler at least once
Attempted(job) ==
  job.state # "waiting" \/ job.attemptsMade > 0 \/ job.redelivered

TradeOutcomes == {"returns", "throwsInHandlePriceUpdate", "throwsInAddMarketDataUpdate"}

\* TradeProcessor.processBatchTrade on job j.  outcome says where the handler
\* stops: it returns, or one of the calls it awaits throws (the kline update,
\* after the accumulator was updated; the first addMarketDataUpdate).
\* The queue hands out its jobs in the order they were added (one handler at
\* a time), so a job is first attempted after the jobs added before it.
ProcessBatchTrade(j, outcome) ==
  LET job == tradeQueue[j]
      lastTrade == job.trades[Len(job.trades)]
      k == handlePriceUpdate([currentMinuteData |-> currentMinuteData,
                              pendingSaveQueue |-> pendingSaveQueue],
                             lastTrade.price, job.totalVolume, job.timestamp)
  IN
  /\ job.state = "waiting"
  /\ \A i \in 1..(j - 1) : Attempted(tradeQueue[i])
  /\ IF batchIdOf(job) \in processedBatches
     THEN /\ outcome = "returns"
          /\ tradeQueue' = [tradeQueue EXCEPT ![j] = jobAfter(job, FALSE)]
          /\ UNCHANGED <<processedBatches, tradeCompleted, marketDataQueue,
                         currentMinuteData, pendingSaveQueue>>
     ELSE /\ processedBatches' = processedBatches \cup {batchIdOf(job)}
          /\ currentMinuteData' = k.currentMinuteData
          /\ pendingSaveQueue' = k.pendingSaveQueue
          /\ tradeCompleted' =
               IF outcome = "throwsInHandlePriceUpdate" THEN tradeCompleted
               ELSE Append(tradeCompleted,
                      [job |-> j, value |-> totalValueOf(job.trades),
                       quantity |-> job.totalVolume, timestamp |-> job.timestamp,
                       tradeId |-> job.trades[1].id, batchSize |-> Len(job.trades)])
          /\ marketDataQueue' =
               IF outcome = "returns"
               THEN marketDataQueue \o
                      <<[updateType |-> "price", data |-> lastTrade.id],
                        [updateType |-> "market", data |-> 0]>>
               ELSE marketDataQueue
          /\ tradeQueue' = [tradeQueue EXCEPT ![j] = jobAfter(job, outcome # "returns")]
  /\ UNCHANGED <<users, positions, orders, trades, orderQueue, submits, cancels,
                 matching, resp, retry, now>>
  /\ UNCHANGED <<processedKlineData, klineBase, klineAggregated, broadcastVars>>

\* a completed job is handed to the consumer once more (at-least-once delivery)
RedeliverBatch(j) ==
  /\ tradeQueue[j].state = "completed"
  /\ ~tradeQueue[j].redelivered
  /\ tradeQueue' = [tradeQueue EXCEPT ![j].state = "waiting", ![j].redelivered = TRUE]
  /\ UNCHANGED <<users, positions, orders, trades, orderQueue, submits, cancels,
                 matching, resp, retry>>
  /\ UNCHANGED downstreamVars

\* the batches handed to the trade queue: up to MaxBatchTrades trades each
BatchTrades ==
  UNION {[1..n -> Prices \X Qtys] : n \in 1..MaxBatchTrades}

\* matchOrder hands a batch to QueueService.addBatchTradeProcessing with
\* timestamp Date.now(); trade ids go on from the trades of the earlier
\* batches, and the batches are made in the first MaxNow instants; maxBatches
\* bounds the batches of a run
AddBatchTradeProcessingAt(pq, maxBatches) ==
  LET n0 == SumOver(1..Len(tradeQueue),
                    [b \in 1..Len(tradeQueue) |-> Len(tradeQueue[b].trades)])
      ts == [n \in 1..Len(pq) |->
               [id |-> n0 + n, price |-> pq[n][1], quantity |-> pq[n][2]]]
  IN
  /\ Len(tradeQueue) < maxBatches
  /\ now <= MaxNow
  /\ tradeQueue' = tradeQueue \o
       NewTradeJobs(<<[trades |-> ts,
                       totalVolume |-> SumOver(1..Len(pq),
                                               [n \in 1..Len(pq) |-> pq[n][2]])]>>)
  /\ UNCHANGED <<users, positions, orders, trades, orderQueue, submits, cancels,
                 matching, resp, retry>>
  /\ UNCHANGED downstreamVars

\* the same with matching jobs more than an instant apart
AddBatchTradeProcessingUpTo(pq, maxBatches) ==
  /\ \A b \in 1..Len(tradeQueue) : tradeQueue[b].timestamp # now
  /\ AddBatchTradeProcessingAt(pq, maxBatches)

AddBatchTradeProcessing(pq) == AddBatchTradeProcessingUpTo(pq, MaxBatches)

Tick ==
  /\ now < MaxNow
  /\ now' = now + 1
  /\ UNCHANGED <<engineVars, retry, processedBatches, tradeCompleted,
                 marketDataQueue, currentMinuteData, pendingSaveQueue,
                 processedKlineData, klineBase, klineAggregated, broadcastVars>>

\* SpecTrade: the trade processor fed with batches
NextTrade ==
  \/ \E pq \in BatchTrades : AddBatchTradeProcessing(pq)
  \/ \E j \in 1..Len(tradeQueue), outcome \in TradeOutcomes : ProcessBatchTrade(j, outcome)
  \/ \E j \in 1..Len(tradeQueue) : RedeliverBatch(j)
  \/ Tick

SpecTrade == Init /\ [][NextTrade]_vars

\* ---------------------------------------------------------------- candle persistence
\* KlineService.intervals: the higher periods (those with a dbInterval), as
\* their baseMultiplier
Intervals == <<5, 15, 60, 1440>>

\* Math.floor(t / ms) * ms
alignTo(t, ms) == (t \div ms) * ms

\* prisma.klineBase.upsert / prisma.klineAggregated.upsert by the unique key
upsertBase(base, c) ==
  {b \in base : b.timestamp # c.timestamp} \cup {c}

upsertAggregated(agg, c) ==
  {a \in agg : ~(a.interval = c.interval /\ a.timestamp = c.timestamp)} \cup {c}

\* the candle generateAggregatedKline computes from the base candles it found
aggregatedData(baseKlines, interval, timestamp) ==
  LET first == CHOOSE b \in baseKlines : \A o \in baseKlines : b.timestamp <= o.timestamp
      last == CHOOSE b \in baseKlines : \A o \in baseKlines : b.timestamp >= o.timestamp
  IN [interval |-> interval, timestamp |-> timestamp,
      open |-> first.open, close |-> last.close,
      high |-> CHOOSE h \in {b.high : b \in baseKlines} : \A b \in baseKlines : b.high <= h,
      low |-> CHOOSE l \in {b.low : b \in baseKlines} : \A b \in baseKlines : b.low >= l,
      volume |-> SumOver(baseKlines, [b \in baseKlines |-> b.volume])]

\* KlineService.generateAggregatedKline
generateAggregatedKline(agg, base, interval, aggregateTimestamp) ==
  LET baseKlines == {b \in base : /\ b.timestamp >= aggregateTimestamp
                                  /\ b.timestamp < aggregateTimestamp + interval * MinuteLen}
  IN IF baseKlines = {} THEN agg
     ELSE upsertAggregated(agg, aggregatedData(baseKlines, interval, aggregateTimestamp))

\* KlineService.aggregateHigherIntervals, from the n-th period on: a period is
\* aggregated when the base minute is the last minute of the period
RECURSIVE aggregateFrom(_, _, _, _)
aggregateFrom(agg, base, baseTimestamp, n) ==
  IF n > Len(Intervals) THEN agg
  ELSE LET intervalMs == Intervals[n] * MinuteLen
           aggregateTimestamp == alignTo(baseTimestamp, intervalMs)
           nextAggregateTimestamp == alignTo(baseTimestamp + MinuteLen, intervalMs)
       IN aggregateFrom(IF aggregateTimestamp # nextAggregateTimestamp
                        THEN generateAggregatedKline(agg, base, Intervals[n], aggregateTimestamp)
                        ELSE agg,
                        base, baseTimestamp, n + 1)

aggregateHigherIntervals(agg, base, baseTimestamp) ==
  aggregateFrom(agg, base, baseTimestamp, 1)

\* KlineService.saveBaseKline on db = [klineBase, klineAggregated,
\* processedKlineData], at wall-clock time clock
saveBaseKline(db, minuteData, clock) ==
  IF minuteData.timestamp \in db.processedKlineData THEN db
  ELSE LET base == upsertBase(db.klineBase, minuteData)
       IN [klineBase |-> base,
           klineAggregated |-> aggregateHigherIntervals(db.klineAggregated, base, minuteData.timestamp),
           processedKlineData |->
             {ts \in db.processedKlineData \cup {minuteData.timestamp} :
                ts >= clock - 1440 * MinuteLen}]

\* the loop over pendingSaveQueue of the periodic task
RECURSIVE savePending(_, _, _)
savePending(db, queue, clock) ==
  IF queue = <<>> THEN db
  ELSE savePending(saveBaseKline(db, Head(queue), clock), Tail(queue), clock)

\* the aggregation loop over the missing minutes: the base candles do not
\* change during the loop, so every period that has its last minute among the
\* missing ones ends up aggregated from them, whatever the order
aggregateMissing(agg, base, missing) ==
  LET generated ==
        UNION {aggregateHigherIntervals({}, base, t) : t \in missing}
  IN {a \in agg : \A g \in generated :
                     ~(g.interval = a.interval /\ g.timestamp = a.timestamp)}
     \cup generated

\* a fill that starts right after the last persisted candle, however old
startFillTimeUnlimited(lastKline, currentMinute) ==
  lastKline.timestamp + MinuteLen

\* the first minute fillMissingKlineForSymbol looks at
startFillTime(lastKline, currentMinute) ==
  LET nextExpectedTimestamp == lastKline.timestamp + MinuteLen
      oneHourAgo == currentMinute - 60 * MinuteLen
  IN IF nextExpectedTimestamp > oneHourAgo THEN nextExpectedTimestamp ELSE oneHourAgo

\* KlineService.fillMissingKlineForSymbol
fillMissingKlineForSymbol(db, currentMinute) ==
  IF db.klineBase = {} THEN db
  ELSE LET lastKline == CHOOSE b \in db.klineBase :
                          \A o \in db.klineBase : b.timestamp >= o.timestamp
           missingTimestamps ==
             {t \in startFillTime(lastKline, currentMinute)..(currentMinute - 1) :
                /\ t = minuteOf(t)
                /\ \A b \in db.klineBase : b.timestamp # t}
           base == db.klineBase \cup
                     {[timestamp |-> t, open |-> lastKline.close, high |-> lastKline.close,
                       low |-> lastKline.close, close |-> lastKline.close, volume |-> 0] :
                        t \in missingTimestamps}
       IN [db EXCEPT !.klineBase = base,
                     !.klineAggregated = aggregateMissing(db.klineAggregated, base, missingTimestamps)]

\* the database after the periodic task has saved the pending candles and the
\* accumulator of an elapsed minute
flushed(clock) ==
  LET db == savePending([klineBase |-> klineBase, klineAggregated |-> klineAggregated,
                         processedKlineData |-> processedKlineData],
                        pendingSaveQueue, clock)
  IN IF currentMinuteData # NoMinuteData /\ currentMinuteData.timestamp < minuteOf(clock)
     THEN saveBaseKline(db, currentMinuteData, clock)
     ELSE db

\* the callback of startPeriodicTasks, which the timer runs every minute; the
\* clock stops after maxMinutes
PeriodicTaskUntil(maxMinutes) ==
  /\ now + MinuteLen <= maxMinutes * MinuteLen
  /\ now' = now + MinuteLen
  /\ \E db \in {fillMissingKlineForSymbol(flushed(now + MinuteLen), minuteOf(now + MinuteLen))} :
       /\ klineBase' = db.klineBase
       /\ klineAggregated' = db.klineAggregated
       /\ processedKlineData' = db.processedKlineData
  /\ pendingSaveQueue' = <<>>
  /\ currentMinuteData' =
       IF currentMinuteData.timestamp < minuteOf(now + MinuteLen)
       THEN NoMinuteData ELSE currentMinuteData
  /\ UNCHANGED <<engineVars, retry, processedBatches, tradeCompleted, marketDataQueue,
                 broadcastVars>>

PeriodicTask == PeriodicTaskUntil(MaxMinutes)

\* the process is stopped, stays down for d minutes and is started again:
\* the maps and sets of the services start empty, the tables and the queued
\* jobs are kept
Restart(d) ==
  /\ now + d * MinuteLen <= MaxMinutes * MinuteLen
  /\ now' = now + d * MinuteLen
  /\ processedBatches' = {}
  /\ currentMinuteData' = NoMinuteData
  /\ pendingSaveQueue' = <<>>
  /\ processedKlineData' = {}
  /\ UNCHANGED <<engineVars, retry, tradeCompleted, marketDataQueue, klineBase,
                 klineAggregated, broadcastVars>>

\* SpecKline: the candle builder fed with one-trade batches
NextKline ==
  \/ \E p \in Prices : AddBatchTradeProcessing(<<<<p, 1>>>>)
  \/ \E j \in 1..Len(tradeQueue), outcome \in {"returns", "throwsInHandlePriceUpdate"} :
       ProcessBatchTrade(j, outcome)
  \/ PeriodicTask
  \/ \E d \in Downtimes : Restart(d)

SpecKline == Init /\ [][NextKline]_vars

\* SpecCandle: the candle builder over a few minutes, fed with up to
\* MaxCandleBatches one-trade batches that may share a minute
NextCandle ==
  \/ \E p \in Prices : AddBatchTradeProcessingUpTo(<<<<p, 1>>>>, MaxCandleBatches)
  \/ \E j \in 1..Len(tradeQueue) : ProcessBatchTrade(j, "returns")
  \/ Tick
  \/ PeriodicTaskUntil(MaxCandleMinutes)

SpecCandle == Init /\ [][NextCandle]_vars

\* ---------------------------------------------------------------- market-data processor
\* the id of the next timer set for an update key: a request sets a debounce
\* timer (odd id) and at most one max-wait timer (even id)
debounceId(key) == 2 * requests[key] + 1
maxWaitId(key) == 2 * requests[key] + 2

\* clearTimeout
clearTimeout(armed, key, id) ==
  {t \in armed : ~(t.key = key /\ t.id = id)}

\* a handler that sets a new max-wait timer on every request, clearing the
\* one that is running
UpdateMarketDataPostponing(key) ==
  /\ SumOver(UpdateTypes, requests) < MaxRequests
  /\ requests' = [requests EXCEPT ![key] = @ + 1]
  /\ lastPayloads' = [lastPayloads EXCEPT ![key] = requests[key] + 1]
  /\ debounceTimers' = [debounceTimers EXCEPT ![key] = debounceId(key)]
  /\ maxWaitTimers' = [maxWaitTimers EXCEPT ![key] = maxWaitId(key)]
  /\ timers' = clearTimeout(clearTimeout(timers, key, debounceTimers[key]),
                            key, maxWaitTimers[key])
                 \cup {[key |-> key, id |-> debounceId(key), timer |-> "debounce"],
                       [key |-> key, id |-> maxWaitId(key), timer |-> "maxWait"]}
  /\ UNCHANGED <<flushes, emitted>>
  /\ UNCHANGED <<engineVars, retry, now, processedBatches, tradeCompleted, marketDataQueue,
                 currentMinuteData, pendingSaveQueue, processedKlineData, klineBase,
                 klineAggregated>>

\* MarketDataProcessor.updateMarketData: the handler of an update-market-data
\* job for the update key
UpdateMarketData(key) ==
  /\ SumOver(UpdateTypes, requests) < MaxRequests
  /\ requests' = [requests EXCEPT ![key] = @ + 1]
  /\ lastPayloads' = [lastPayloads EXCEPT ![key] = requests[key] + 1]
  /\ debounceTimers' = [debounceTimers EXCEPT ![key] = debounceId(key)]
  /\ maxWaitTimers' = [maxWaitTimers EXCEPT ![key] = IF @ = 0 THEN maxWaitId(key) ELSE @]
  /\ timers' = clearTimeout(timers, key, debounceTimers[key])
                 \cup {[key |-> key, id |-> debounceId(key), timer |-> "debounce"]}
                 \cup (IF maxWaitTimers[key] = 0
                       THEN {[key |-> key, id |-> maxWaitId(key), timer |-> "maxWait"]}
                       ELSE {})
  /\ UNCHANGED <<flushes, emitted>>
  /\ UNCHANGED <<engineVars, retry, now, processedBatches, tradeCompleted, marketDataQueue,
                 currentMinuteData, pendingSaveQueue, processedKlineData, klineBase,
                 klineAggregated>>

\* the finally block of a timer callback: the debounce callback clears the
\* max-wait timer, the max-wait callback clears the debounce timer, and both
\* delete the two map entries and the recorded payload
Finally(t, armed) ==
  /\ timers' = IF t.timer = "debounce"
               THEN clearTimeout(armed, t.key, maxWaitTimers[t.key])
               ELSE clearTimeout(armed, t.key, debounceTimers[t.key])
  /\ maxWaitTimers' = [maxWaitTimers EXCEPT ![t.key] = 0]
  /\ debounceTimers' = [debounceTimers EXCEPT ![t.key] = 0]
  /\ lastPayloads' = [lastPayloads EXCEPT ![t.key] = 0]

\* a timer fires and its callback runs up to its first await or to its end:
\* without a recorded payload it returns; a price payload is broadcast at
\* once; for a market payload it calls broadcastMarketDataUpdate and waits
TimerFires(t) ==
  /\ t \in timers
  /\ IF lastPayloads[t.key] # 0 /\ t.key = "market"
     THEN /\ flushes' = flushes \cup {[key |-> t.key, id |-> t.id, timer |-> t.timer,
                                        payload |-> lastPayloads[t.key]]}
          /\ timers' = timers \ {t}
          /\ UNCHANGED <<lastPayloads, debounceTimers, maxWaitTimers, emitted>>
     ELSE /\ emitted' = IF lastPayloads[t.key] # 0
                        THEN [emitted EXCEPT ![t.key] = Append(@, lastPayloads[t.key])]
                        ELSE emitted
          /\ Finally(t, timers \ {t})
          /\ UNCHANGED flushes
  /\ UNCHANGED requests
  /\ UNCHANGED <<engineVars, retry, now, processedBatches, tradeCompleted, marketDataQueue,
                 currentMinuteData, pendingSaveQueue, processedKlineData, klineBase,
                 klineAggregated>>

\* broadcastMarketDataUpdate returns to the callback that waits for it: the
\* market update is out, and the callback's finally block runs
FlushReturns(f) ==
  /\ f \in flushes
  /\ flushes' = flushes \ {f}
  /\ emitted' = [emitted EXCEPT ![f.key] = Append(@, f.payload)]
  /\ Finally(f, timers)
  /\ UNCHANGED requests
  /\ UNCHANGED <<engineVars, retry, now, processedBatches, tradeCompleted, marketDataQueue,
                 currentMinuteData, pendingSaveQueue, processedKlineData, klineBase,
                 klineAggregated>>

\* SpecBroadcast: the market-data processor fed with update jobs
NextBroadcast ==
  \/ \E key \in UpdateTypes : UpdateMarketData(key)
  \/ \E t \in timers : TimerFires(t)
  \/ \E f \in flushes : FlushReturns(f)

SpecBroadcast == Init /\ [][NextBroadcast]_vars

\* SpecBroadcastLive: a timer that is set and not cleared fires, and a callback
\* that waits for broadcastMarketDataUpdate is resumed
SpecBroadcastLive ==
  /\ SpecBroadcast
  /\ WF_vars(\E t \in timers : TimerFires(t))
  /\ WF_vars(\E f \in flushes : FlushReturns(f))

\* SpecBroadcastStream: requests may keep resetting the debounce timer, so it
\* need never fire; a max-wait timer that is set and not cleared fires, and a
\* callback that waits for broadcastMarketDataUpdate is resumed
SpecBroadcastStream ==
  /\ SpecBroadcast
  /\ WF_vars(\E t \in timers : t.timer = "maxWait" /\ TimerFires(t))
  /\ WF_vars(\E f \in flushes : FlushReturns(f))

\* ---------------------------------------------------------------- properties
OrderIds == 1..Len(orders)

ResidualCash(o) == o.frozenAmount - o.actualUsedAmount

OpenBuysOf(u) ==
  {i \in OrderIds : orders[i].userId = u /\ orders[i].type = "BUY"
                    /\ orders[i].status \in NonTerminal}

OpenSellsOf(u) ==
  {i \in OrderIds : orders[i].userId = u /\ orders[i].type = "SELL"
                    /\ orders[i].status \in NonTerminal}

\* C1: every account has 0 <= cashReserved <= cashTotal and every position
\* has 0 <= qtyReserved <= qtyTotal, in every committed state.
C1_LedgerWithinBounds ==
  \A u \in Users :
    /\ 0 <= users[u].frozenBalance
    /\ users[u].frozenBalance <= users[u].balance
    /\ 0 <= positions[u].frozenQuantity
    /\ positions[u].frozenQuantity <= positions[u].quantity

\* C2: the sum of qtyTotal over all positions never changes.
C2_SharesConserved ==
  SumOver(Users, [u \in Users |-> positions[u].quantity]) = NumUsers * InitQuantity

\* C3: the sum of cashTotal over all accounts never changes.
C3_CashConserved ==
  SumOver(Users, [u \in Users |-> users[u].balance]) = NumUsers * InitBalance

\* C4: every non-terminal BUY order has reservedCash - consumedCash >= 0 and
\* each account's cashReserved is the sum of that residual over the user's
\* non-terminal BUY orders.
C4_CashReservedIsResidual ==
  \A u \in Users :
    /\ \A i \in OpenBuysOf(u) : ResidualCash(orders[i]) >= 0
    /\ users[u].frozenBalance =
         SumOver(OpenBuysOf(u), [i \in OrderIds |-> ResidualCash(orders[i])])

\* C5: each user's qtyReserved is the sum of quantity - filledQty over the
\* user's non-terminal SELL orders.
C5_QtyReservedIsUnfilled ==
  \A u \in Users :
    positions[u].frozenQuantity =
      SumOver(OpenSellsOf(u),
              [i \in OrderIds |-> orders[i].quantity - orders[i].filledQuantity])

\* a state reached by a fill that moved cash between two accounts
C3_Witness ==
  /\ Len(trades) > 0
  /\ \E u \in Users : users[u].balance > InitBalance
  /\ \E u \in Users : users[u].balance < InitBalance

\* the side opposite to an order's
OtherSide(type) == IF type = "BUY" THEN "SELL" ELSE "BUY"

\* o is on the other side of newOrder, resting, and at a compatible price
Crosses(newOrder, o) ==
  /\ o.type = OtherSide(newOrder.type)
  /\ o.status \in Resting
  /\ (newOrder.method = "LIMIT" =>
        IF newOrder.type = "BUY" THEN o.price <= newOrder.price
        ELSE o.price >= newOrder.price)

NoSelfTrade ==
  \A t \in 1..Len(trades) :
    orders[trades[t].buyOrderId].userId # orders[trades[t].sellOrderId].userId

\* the step in which a matching job reads the book
BookRead == matching = None /\ matching' # None

\* the step in which a matching job ends
JobEnd == matching # None /\ matching' = None

OnlyOwnCandidates(newOrder) ==
  /\ \E i \in OrderIds : Crosses(newOrder, orders[i])
  /\ \A i \in OrderIds :
       Crosses(newOrder, orders[i]) => orders[i].userId = newOrder.userId

\* C6: every trade's buy order and sell order belong to different users; an
\* incoming order whose only opposing candidates are the same user's gets an
\* empty book, and a job with an empty book creates no trade and leaves a LIMIT
\* order resting (OPEN).
C6_NoSelfTrade ==
  /\ []NoSelfTrade
  /\ [][BookRead /\ OnlyOwnCandidates(orders[matching'.orderId])
          => matching'.book = <<>>]_vars
  /\ [][JobEnd /\ matching.book = <<>>
          => /\ trades' = trades
             /\ (orders[matching.orderId].method = "LIMIT"
                   => orders'[matching.orderId].status = "OPEN")]_vars

\* a BUY and a SELL of one user rest at crossing prices, untraded, next to a
\* trade between the two users
C6_Witness ==
  /\ matching = None
  /\ Len(trades) > 0
  /\ \E i, j \in OrderIds :
       /\ orders[i].userId = orders[j].userId
       /\ orders[i].type = "BUY" /\ orders[j].type = "SELL"
       /\ orders[i].status \in Resting /\ orders[j].status \in Resting
       /\ orders[i].method = "LIMIT" /\ orders[j].method = "LIMIT"
       /\ orders[i].price >= orders[j].price

\* the trades created by the job that ends in this step
NewTradeIds == (Len(trades) + 1)..Len(trades')

\* the resting order of new trade t, given the incoming order
ChosenId(newOrder, t) ==
  IF newOrder.type = "BUY" THEN trades'[t].sellOrderId ELSE trades'[t].buyOrderId

SellerOfPair(newOrder, o) ==
  IF newOrder.type = "SELL" THEN newOrder.userId ELSE o.userId

\* quantity filled against order id by this job before new trade t
FilledBefore(newOrder, t, id) ==
  SumOver({s \in NewTradeIds : s < t /\ ChosenId(newOrder, s) = id},
          [s \in NewTradeIds |-> trades'[s].quantity])

\* quantity settled out of user u's reserved shares by this job before t
SoldBefore(t, u) ==
  SumOver({s \in NewTradeIds : s < t /\ orders[trades'[s].sellOrderId].userId = u},
          [s \in NewTradeIds |-> trades'[s].quantity])

\* o can be filled by newOrder at the moment of new trade t: opposite side,
\* resting, another user's, price-compatible, with quantity left and with
\* reserved shares left on the selling side
Eligible(newOrder, t, o) ==
  /\ Crosses(newOrder, o)
  /\ o.userId # newOrder.userId
  /\ o.quantity - o.filledQuantity - FilledBefore(newOrder, t, o.id) > 0
  /\ positions[SellerOfPair(newOrder, o)].frozenQuantity
       - SoldBefore(t, SellerOfPair(newOrder, o)) > 0

\* a has priority over b for newOrder
Better(newOrder, a, b) ==
  \/ (newOrder.type = "BUY" /\ a.price < b.price)
  \/ (newOrder.type = "SELL" /\ a.price > b.price)
  \/ (a.price = b.price /\ a.id < b.id)

\* C7: for every fill of an incoming order, no eligible resting opposite order
\* has a better price than the chosen one (lower for an incoming BUY, higher
\* for an incoming SELL), nor the same price and an earlier creation.
C7_PriceTimePriority ==
  [][JobEnd =>
       \A t \in NewTradeIds : \A i \in OrderIds :
         (i # ChosenId(orders[matching.orderId], t)
            /\ Eligible(orders[matching.orderId], t, orders[i]))
         => ~Better(orders[matching.orderId], orders[i],
                    orders[ChosenId(orders[matching.orderId], t)])]_vars

\* an incoming order traded with the better-priced of two orders it crossed,
\* the other one still resting untouched
C7_Witness ==
  \E t \in 1..Len(trades) : \E j \in OrderIds :
    LET b == orders[trades[t].buyOrderId]
        a == orders[trades[t].sellOrderId]
        o == orders[j]
    IN \/ /\ j # a.id /\ o.type = "SELL" /\ o.status = "OPEN"
          /\ o.userId # b.userId /\ o.id < b.id /\ a.id < b.id
          /\ a.price < o.price /\ trades[t].price = a.price
          /\ (b.method = "LIMIT" => o.price <= b.price)
       \/ /\ j # b.id /\ o.type = "BUY" /\ o.status = "OPEN"
          /\ o.userId # a.userId /\ o.id < a.id /\ b.id < a.id
          /\ b.price > o.price /\ trades[t].price = b.price
          /\ (a.method = "LIMIT" => o.price >= a.price)

\* C8: once an order's committed status is FILLED or CANCELLED, no field of
\* the order changes in any later step.
C8_Terminality ==
  [][\A i \in OrderIds :
       orders[i].status \in Terminal => orders'[i] = orders[i]]_vars

\* a cancelOrder call that returns before any transaction
ReturnsEarly == resp' # resp /\ cancels' = cancels

\* C9: cancelOrder by the owner on an order that is FILLED or CANCELLED returns
\* success and changes no account, position, order or trade, each time it is
\* called.
C9_IdempotentCancel ==
  [][(/\ ReturnsEarly
      /\ resp'.orderId \in OrderIds
      /\ orders[resp'.orderId].userId = resp'.userId
      /\ orders[resp'.orderId].status \in Terminal)
     => /\ resp'.result = "success"
        /\ UNCHANGED <<users, positions, orders, trades>>]_vars

\* the owner's cancel of a FILLED order has returned success
C9_Witness ==
  /\ resp.op = "cancel" /\ resp.result = "success"
  /\ resp.message = "already filled"
  /\ resp.orderId \in OrderIds
  /\ orders[resp.orderId].userId = resp.userId
  /\ orders[resp.orderId].status = "FILLED"

\* the residual reservation of order o has left its owner's reserved amounts
Released(o) ==
  IF o.type = "BUY"
  THEN users'[o.userId].frozenBalance =
         users[o.userId].frozenBalance
           - Min(ResidualCash(o), users[o.userId].frozenBalance)
  ELSE positions'[o.userId].frozenQuantity =
         positions[o.userId].frozenQuantity
           - Min(o.quantity - o.filledQuantity, positions[o.userId].frozenQuantity)

\* C10: a cancelOrder call by the owner that finds the order PENDING, OPEN or
\* PARTIALLY_FILLED returns success, leaves the order CANCELLED and releases
\* its residual reservation, all in the step in which it answers.
C10_CancelNonTerminal ==
  [][(/\ resp' # resp
      /\ resp'.orderId \in OrderIds
      /\ orders[resp'.orderId].userId = resp'.userId
      /\ orders[resp'.orderId].status \in NonTerminal)
     => /\ resp'.result = "success"
        /\ orders'[resp'.orderId].status = "CANCELLED"
        /\ Released(orders[resp'.orderId])]_vars

\* the step is the transaction of a cancelOrder call
CancelCommits == Len(cancels') < Len(cancels)

\* C11: a cancellation releases exactly the residual of the order it cancels:
\* when a cancel turns a non-terminal order into CANCELLED, a BUY's owner has
\* cashReserved lowered by reservedCash - consumedCash with cashTotal unchanged,
\* a SELL's owner has qtyReserved lowered by quantity - filledQty with qtyTotal
\* unchanged, and filledQty stays as it was.
C11_CancelReleasesResidual ==
  [][CancelCommits =>
       \A i \in OrderIds :
         (orders[i].status \in NonTerminal /\ orders'[i].status = "CANCELLED")
         => /\ orders'[i].filledQuantity = orders[i].filledQuantity
            /\ users'[orders[i].userId].balance = users[orders[i].userId].balance
            /\ positions'[orders[i].userId].quantity
                 = positions[orders[i].userId].quantity
            /\ IF orders[i].type = "BUY"
               THEN users'[orders[i].userId].frozenBalance
                      = users[orders[i].userId].frozenBalance
                          - ResidualCash(orders[i])
               ELSE positions'[orders[i].userId].frozenQuantity
                      = positions[orders[i].userId].frozenQuantity
                          - (orders[i].quantity - orders[i].filledQuantity)]_vars

\* C12: a cancelOrder call for an unknown order id answers NOT_FOUND, a call
\* by a user who does not own the order answers FORBIDDEN, and in both cases
\* no order, account, position or trade changes.
C12_ForbiddenNotFound ==
  [][resp' # resp =>
       /\ (resp'.orderId \notin OrderIds
             => /\ resp'.result = "NOT_FOUND"
                /\ UNCHANGED <<users, positions, orders, trades>>)
       /\ (resp'.orderId \in OrderIds
             => (orders[resp'.orderId].userId # resp'.userId
                   => /\ resp'.result = "FORBIDDEN"
                      /\ UNCHANGED <<users, positions, orders, trades>>))]_vars

\* a user's cancel of another user's order has been refused
C12_Witness ==
  /\ resp.op = "cancel" /\ resp.result = "FORBIDDEN"
  /\ resp.orderId \in OrderIds
  /\ orders[resp.orderId].userId # resp.userId
  /\ orders[resp.orderId].status \in Resting

\* the step ends a pushIntoOrderQueue call (its transaction and the enqueue)
SubmitCommits == Len(submits') < Len(submits)

\* the call created the order row, made its reservation and enqueued its job
SubmitAllDone ==
  LET id == Len(orders) + 1 IN
  /\ Len(orders') = id
  /\ SubSeq(orders', 1, Len(orders)) = orders
  /\ orders'[id].status = "PENDING"
  /\ \E job \in orderQueue' : job.orderId = id /\ orderQueue' = orderQueue \cup {job}
  /\ IF orders'[id].type = "BUY"
     THEN /\ orders'[id].frozenAmount > 0
          /\ users' = [users EXCEPT ![orders'[id].userId].frozenBalance =
                                       @ + orders'[id].frozenAmount]
          /\ positions' = positions
     ELSE /\ positions' = [positions EXCEPT ![orders'[id].userId].frozenQuantity =
                                               @ + orders'[id].quantity]
          /\ users' = users

\* the call left no trace
SubmitNothingDone ==
  /\ orders' = orders /\ orderQueue' = orderQueue
  /\ users' = users /\ positions' = positions

\* C13: a submission either creates the PENDING order, its reservation and its
\* job together, or nothing at all; a SELL whose shares are no longer
\* available when its reservation is attempted creates nothing.
C13_SubmissionAtomic ==
  [][SubmitCommits =>
       /\ (SubmitAllDone \/ SubmitNothingDone)
       /\ trades' = trades
       /\ \A k \in 1..Len(submits) :
            (/\ submits' = Remove(submits, k)
             /\ submits[k].type = "SELL"
             /\ positions[submits[k].userId].quantity
                  - positions[submits[k].userId].frozenQuantity < submits[k].quantity)
            => SubmitNothingDone]_vars

\* one submission went through and another, in flight, asks for shares that
\* are no longer available
C13_Witness ==
  /\ Len(orders) > 0
  /\ \E k \in 1..Len(submits) :
       /\ submits[k].type = "SELL"
       /\ positions[submits[k].userId].quantity
            - positions[submits[k].userId].frozenQuantity < submits[k].quantity

\* the step is the first half of a pushIntoOrderQueue call: the amount to
\* reserve has been computed
SubmitComputes == Len(submits') = Len(submits) + 1

\* C14: the amount a submission sets out to reserve is limitPrice * quantity
\* for a BUY LIMIT and the caller's whole available cash at that moment for a
\* BUY MARKET; a submission that succeeds adds exactly that amount to the
\* buyer's cashReserved, or exactly quantity to the seller's qtyReserved, and
\* its order row has reservedCash equal to the cash reserved (0 for a SELL)
\* and consumedCash 0.
C14_ReservationAmounts ==
  /\ [][SubmitComputes =>
          LET s == submits'[Len(submits')] IN
          IF s.type = "SELL" THEN s.requiredAmount = 0
          ELSE IF s.method = "LIMIT" THEN s.requiredAmount = s.price * s.quantity
          ELSE s.requiredAmount
                 = users[s.userId].balance - users[s.userId].frozenBalance]_vars
  /\ [][SubmitCommits /\ Len(orders') = Len(orders) + 1 =>
          LET o == orders'[Len(orders')] IN
          /\ o.actualUsedAmount = 0
          /\ \E k \in 1..Len(submits) :
               /\ submits' = Remove(submits, k)
               /\ o.userId = submits[k].userId /\ o.type = submits[k].type
               /\ o.method = submits[k].method /\ o.quantity = submits[k].quantity
               /\ o.frozenAmount = submits[k].requiredAmount
          /\ IF o.type = "BUY"
             THEN /\ users'[o.userId].frozenBalance
                       = users[o.userId].frozenBalance + o.frozenAmount
                  /\ (o.method = "LIMIT" => o.frozenAmount = o.price * o.quantity)
                  /\ positions' = positions
             ELSE /\ positions'[o.userId].frozenQuantity
                       = positions[o.userId].frozenQuantity + o.quantity
                  /\ o.frozenAmount = 0
                  /\ users' = users]_vars

\* a BUY MARKET order just created holds the buyer's whole cash, next to a
\* BUY LIMIT for two shares and a SELL holding its shares
C14_Witness ==
  \E i \in OrderIds :
    /\ orders[i].type = "BUY" /\ orders[i].method = "MARKET"
    /\ orders[i].status = "PENDING"
    /\ orders[i].frozenAmount = InitBalance
    /\ users[orders[i].userId].frozenBalance = InitBalance
    /\ \E j \in OrderIds :
         /\ orders[j].type = "BUY" /\ orders[j].method = "LIMIT"
         /\ orders[j].quantity = 2 /\ orders[j].frozenAmount = 2 * orders[j].price

\* cash paid and shares bought by user u in the trades of the job that ends
\* in this step, and likewise cash earned and shares sold
Paid(u) ==
  SumOver({t \in NewTradeIds : orders[trades'[t].buyOrderId].userId = u},
          [t \in NewTradeIds |-> trades'[t].price * trades'[t].quantity])

Bought(u) ==
  SumOver({t \in NewTradeIds : orders[trades'[t].buyOrderId].userId = u},
          [t \in NewTradeIds |-> trades'[t].quantity])

Earned(u) ==
  SumOver({t \in NewTradeIds : orders[trades'[t].sellOrderId].userId = u},
          [t \in NewTradeIds |-> trades'[t].price * trades'[t].quantity])

Sold(u) ==
  SumOver({t \in NewTradeIds : orders[trades'[t].sellOrderId].userId = u},
          [t \in NewTradeIds |-> trades'[t].quantity])

\* what the orders of user u that end in this step give back: the unspent
\* cash of its BUY orders, the unsold shares of its cancelled SELL orders
EndedIn(u, type) ==
  {i \in OrderIds : /\ orders[i].userId = u /\ orders[i].type = type
                    /\ orders[i].status \notin Terminal
                    /\ orders'[i].status \in Terminal}

CashGivenBack(u) ==
  SumOver(EndedIn(u, "BUY"),
          [i \in OrderIds |-> orders'[i].frozenAmount - orders'[i].actualUsedAmount])

SharesGivenBack(u) ==
  SumOver(EndedIn(u, "SELL"),
          [i \in OrderIds |-> orders'[i].quantity - orders'[i].filledQuantity])

\* C15: the fills of a job settle as follows: per fill of q at p the buyer's
\* cashTotal and cashReserved each go down by q * p and its qtyTotal up by q,
\* the seller's qtyTotal and qtyReserved each go down by q and its cashTotal
\* up by q * p (beyond that, an order that ends gives back its residual).
C15_FillSettlement ==
  [][JobEnd /\ NewTradeIds # {} =>
       \A u \in Users :
         /\ users'[u].balance = users[u].balance - Paid(u) + Earned(u)
         /\ users'[u].frozenBalance
              = users[u].frozenBalance - Paid(u) - CashGivenBack(u)
         /\ positions'[u].quantity = positions[u].quantity + Bought(u) - Sold(u)
         /\ positions'[u].frozenQuantity
              = positions[u].frozenQuantity - Sold(u) - SharesGivenBack(u)]_vars

\* C16: every trade of a matching job executes at the limit price of the
\* resting order it was matched against, whether the incoming order is LIMIT
\* (a price improvement goes to the incoming order) or MARKET.
C16_TradeAtRestingPrice ==
  [][JobEnd =>
       \A t \in NewTradeIds :
         LET newOrder == orders[matching.orderId]
             resting  == orders[ChosenId(newOrder, t)]
         IN  /\ resting.id # newOrder.id
             /\ resting.method = "LIMIT"
             /\ trades'[t].price = resting.price]_vars

\* a LIMIT buy at 2 improved to the resting sell's price 1, and a MARKET buy
\* filled at the same resting sell's price
C16_Witness ==
  \E t1, t2 \in 1..Len(trades) :
    /\ orders[trades[t1].buyOrderId].method = "LIMIT"
    /\ orders[trades[t1].buyOrderId].price = 2
    /\ orders[trades[t1].sellOrderId].price = 1
    /\ trades[t1].price = 1
    /\ orders[trades[t2].buyOrderId].method = "MARKET"
    /\ orders[trades[t2].sellOrderId].method = "LIMIT"
    /\ trades[t2].price = orders[trades[t2].sellOrderId].price

\* the job that ends in this step is that of a MARKET order and it commits
MarketJobCommits ==
  /\ JobEnd
  /\ orders[matching.orderId].method = "MARKET"
  /\ orders'[matching.orderId].status # "PENDING"

NoMarketOrderRests ==
  \A i \in OrderIds : orders[i].method = "MARKET" => orders[i].status \notin Resting

NoMarketCandidate ==
  matching # None => \A k \in 1..Len(matching.book) : matching.book[k].method = "LIMIT"

\* what an account keeps reserved once an order that reserved `whole` has
\* settled `spent` of it and released the residual, the release being capped
\* by what the account still has reserved
StillReserved(reserved, spent, whole) ==
  (reserved - spent) - Min(whole - spent, reserved - spent)

\* C17: MARKET orders never rest. When the job of a MARKET order commits, the
\* order is FILLED, or CANCELLED if any quantity is unfilled, and the whole
\* residual of its reservation is released as in a cancellation (the residual,
\* capped by what the account still has reserved);
\* in no committed state is a MARKET order OPEN or PARTIALLY_FILLED, and no
\* MARKET order is among the resting candidates a job reads.
C17_MarketNeverRests ==
  /\ [](NoMarketOrderRests /\ NoMarketCandidate)
  /\ [][MarketJobCommits =>
          LET o == orders[matching.orderId]
              n == orders'[matching.orderId]
          IN  /\ n.status = IF n.filledQuantity = o.quantity THEN "FILLED"
                            ELSE "CANCELLED"
              /\ IF o.type = "BUY"
                 THEN /\ users'[o.userId].balance
                           = users[o.userId].balance - n.actualUsedAmount
                      /\ users'[o.userId].frozenBalance
                           = StillReserved(users[o.userId].frozenBalance,
                                           n.actualUsedAmount, o.frozenAmount)
                 ELSE positions'[o.userId].frozenQuantity
                        = StillReserved(positions[o.userId].frozenQuantity,
                                        n.filledQuantity, o.quantity)]_vars

\* the example of the claim at the model's scale: a MARKET buy for 2 met one
\* resting share, traded it and was cancelled with filledQuantity 1, and its
\* owner has nothing reserved
C17_Witness ==
  \E i \in OrderIds :
    /\ orders[i].method = "MARKET" /\ orders[i].type = "BUY"
    /\ orders[i].quantity = 2 /\ orders[i].filledQuantity = 1
    /\ orders[i].status = "CANCELLED"
    /\ \E t \in 1..Len(trades) : trades[t].buyOrderId = i
    /\ users[orders[i].userId].frozenBalance = 0
    /\ users[orders[i].userId].balance = InitBalance - orders[i].actualUsedAmount

\* C18: in every committed state the actualUsedAmount (consumedCash) of every
\* BUY order equals the sum of price * quantity over the trades whose
\* buyOrderId is that order.
C18_ConsumedCashIsTradeSum ==
  \A i \in OrderIds :
    orders[i].type = "BUY" =>
      orders[i].actualUsedAmount
        = SumOver({t \in 1..Len(trades) : trades[t].buyOrderId = i},
                  [t \in 1..Len(trades) |-> trades[t].price * trades[t].quantity])

\* a BUY order with two fills at different prices, 1 and 2
C18_Witness ==
  \E i \in OrderIds, t1, t2 \in 1..Len(trades) :
    /\ orders[i].type = "BUY"
    /\ trades[t1].buyOrderId = i /\ trades[t2].buyOrderId = i
    /\ trades[t1].price # trades[t2].price
    /\ orders[i].actualUsedAmount = 3
\* the consumer takes the job of an order that is not PENDING
TakesNonPending(job) ==
  /\ job \in orderQueue
  /\ orderQueue' = orderQueue \ {job}
  /\ orders[job.orderId].status # "PENDING"

\* quantity of order i over all its trades
TradedQuantity(i) ==
  SumOver({t \in 1..Len(trades) : i \in {trades[t].buyOrderId, trades[t].sellOrderId}},
          [t \in 1..Len(trades) |-> trades[t].quantity])

NoDuplicateFills ==
  \A i \in OrderIds : /\ TradedQuantity(i) = orders[i].filledQuantity
                       /\ TradedQuantity(i) <= orders[i].quantity

\* C19: processing a process-order job of an order that is not PENDING is a
\* no-op: no trade is created, no order, account or position field changes and
\* no matching starts; with jobs delivered more than once no order is filled
\* twice (its trades add up to its filledQuantity, at most its quantity).
C19_DuplicateJobNoOp ==
  /\ [][\A job \in orderQueue :
          TakesNonPending(job) =>
            /\ UNCHANGED <<users, positions, orders, trades, tradeQueue>>
            /\ matching' = matching]_vars
  /\ []NoDuplicateFills

\* the job of an order that was completely filled was delivered again and
\* failed on the status check; the order still has exactly its one fill
C19_Witness ==
  /\ resp.op = "process-order" /\ resp.result = "FAILED"
  /\ resp.message = "FILLED"
  /\ orders[resp.orderId].status = "FILLED"
  /\ orders[resp.orderId].quantity = 2
  /\ TradedQuantity(resp.orderId) = 2

\* the matching job of order i failed: the order is still PENDING and its job
\* is neither waiting nor running
JobFailed(i) ==
  /\ orders[i].status = "PENDING"
  /\ \A job \in orderQueue : job.orderId # i
  /\ matching.orderId # i

\* C20: an order whose matching failed is left recoverable: the failed job
\* commits no ledger mutation, and the owner can cancel the order (the call
\* goes on to the transaction that sets CANCELLED and releases the
\* reservation), so no order is left with its reservation locked.
C20_FailedOrderRecoverable ==
  /\ [][JobEnd /\ orders'[matching.orderId].status = "PENDING"
          => UNCHANGED <<users, positions, orders, trades, tradeQueue>>]_vars
  /\ [](\A i \in OrderIds :
          JobFailed(i) => cancelOrderCheck(orders, i, orders[i].userId) = "transaction")

\* the submission that ends in this step made a cash reservation
ReservesCash ==
  /\ SubmitCommits
  /\ Len(orders') = Len(orders) + 1
  /\ orders'[Len(orders')].type = "BUY"

\* C27: a cash reservation succeeds only if the amount fits in the account's
\* available cash (balance - frozenBalance) at the moment of its write, so
\* two concurrent reservations both succeed only if their amounts together
\* fit in the available cash.
C27_ReserveCashAtomic ==
  [][ReservesCash =>
       LET o == orders'[Len(orders')] IN
       users[o.userId].balance - users[o.userId].frozenBalance >= o.frozenAmount]_vars

\* The fills the claim prescribes for incoming order newOrder on candidates
\* book[k..], as a sequence of <<candidate id, quantity>>: remaining is the
\* incoming order's unfilled quantity and sold[u] the shares user u has sold
\* in this job so far.
RECURSIVE PrescribedFills(_, _, _, _, _)
PrescribedFills(newOrder, book, k, remaining, sold) ==
  IF k > Len(book) \/ remaining = 0 THEN <<>>
  ELSE LET c == book[k]
           seller == SellerOfPair(newOrder, c)
           fillQty == Min(Min(remaining, c.quantity - c.filledQuantity),
                          positions[seller].frozenQuantity - sold[seller])
       IN IF fillQty <= 0
          THEN PrescribedFills(newOrder, book, k + 1, remaining, sold)
          ELSE <<(<<c.id, fillQty>>)>> \o
               PrescribedFills(newOrder, book, k + 1, remaining - fillQty,
                               [sold EXCEPT ![seller] = @ + fillQty])

PrescribedNow ==
  PrescribedFills(orders[matching.orderId], matching.book, 1,
                  orders[matching.orderId].quantity, [u \in Users |-> 0])

\* the trades of the job that ends in this step, as <<candidate id, quantity>>
FillsMade ==
  [n \in 1..(Len(trades') - Len(trades)) |->
     <<ChosenId(orders[matching.orderId], Len(trades) + n),
       trades'[Len(trades) + n].quantity>>]

\* C28: a job fills, candidate by candidate in book order, min(incoming
\* remaining, candidate remaining, seller's reserved shares net of the fills
\* already made in this job); a candidate for which that is <= 0 is skipped
\* without a trade and matching goes on with the next candidate, until the
\* incoming remaining is 0.  A LIMIT order all of whose candidates are skipped
\* rests OPEN.
C28_FillQuantity ==
  [][JobEnd =>
       /\ (orders'[matching.orderId].status # "PENDING" => FillsMade = PrescribedNow)
       /\ (PrescribedNow = <<>> /\ orders[matching.orderId].method = "LIMIT"
             => orders'[matching.orderId].status = "OPEN" /\ trades' = trades)]_vars

\* a candidate was skipped: a SELL order and a BUY order of different users
\* that cross both rest after both were processed, the seller having no
\* reserved shares left
C28_Witness ==
  \E i, j \in OrderIds :
    /\ orders[i].type = "SELL" /\ orders[j].type = "BUY"
    /\ orders[i].userId # orders[j].userId
    /\ orders[i].status = "OPEN" /\ orders[j].status \in Resting
    /\ orders[j].price >= orders[i].price
    /\ positions[orders[i].userId].frozenQuantity = 0

\* C30: a process-order job that produced trades enqueues exactly one
\* batch-trade job, holding all trades of the job in execution order and
\* totalVolume = the quantity filled in the job; a job that produced no trade
\* enqueues none.
C30_OneBatchPerJob ==
  [][JobEnd =>
       IF Len(trades') > Len(trades)
       THEN /\ Len(tradeQueue') = Len(tradeQueue) + 1
            /\ SubSeq(tradeQueue', 1, Len(tradeQueue)) = tradeQueue
            /\ tradeQueue'[Len(tradeQueue')].trades
                 = SubSeq(trades', Len(trades) + 1, Len(trades'))
            /\ tradeQueue'[Len(tradeQueue')].totalVolume
                 = SumOver(NewTradeIds, [t \in NewTradeIds |-> trades'[t].quantity])
       ELSE tradeQueue' = tradeQueue]_vars

\* a batch of two trades at different prices, and a job that ended without a
\* trade (an order processed and resting OPEN)
C30_Witness ==
  /\ \E b \in 1..Len(tradeQueue) :
       /\ Len(tradeQueue[b].trades) = 2
       /\ tradeQueue[b].trades[1].price # tradeQueue[b].trades[2].price
       /\ tradeQueue[b].totalVolume = 2
  /\ Len(tradeQueue) = 1
  /\ Len(orders) = 3

\* conflict-class errors: serialization conflict, unique-key violation, deadlock
ConflictClass(error) == error.code \in {"P2034", "P2002"} \/ error.deadlock

\* the step is a failed attempt of the matching transaction: it is followed by
\* another attempt, or it ends the job and leaves the order PENDING
AttemptFails ==
  /\ matching # None
  /\ \/ retry'.failed = retry.failed + 1
     \/ matching' = None /\ orders'[matching.orderId].status = "PENDING"

Emissions(j) ==
  Cardinality({e \in 1..Len(tradeCompleted) : tradeCompleted[e].job = j})

\* C21: every trade batch is emitted as a tradeCompleted event exactly once:
\* never twice, and once its batch-trade job has completed (after any
\* redelivery or retry of a failed attempt) never zero times.
C21_TradeCompletedExactlyOnce ==
  \A j \in 1..Len(tradeQueue) :
    /\ Emissions(j) <= 1
    /\ tradeQueue[j].state = "completed" => Emissions(j) = 1

\* ---- C22
\* the trades of the processed batches of the minute starting at minute, in
\* the order they were made (jobs b..Len(tradeQueue))
RECURSIVE MinuteTrades(_, _)
MinuteTrades(b, minute) ==
  IF b > Len(tradeQueue) THEN <<>>
  ELSE (IF /\ batchIdOf(tradeQueue[b]) \in processedBatches
           /\ minuteOf(tradeQueue[b].timestamp) = minute
        THEN tradeQueue[b].trades ELSE <<>>) \o MinuteTrades(b + 1, minute)

\* the candle of a non-empty sequence of trades
CandleOf(minute, ts) ==
  [timestamp |-> minute,
   open |-> ts[1].price,
   high |-> CHOOSE p \in {ts[n].price : n \in 1..Len(ts)} :
              \A n \in 1..Len(ts) : ts[n].price <= p,
   low |-> CHOOSE p \in {ts[n].price : n \in 1..Len(ts)} :
             \A n \in 1..Len(ts) : ts[n].price >= p,
   close |-> ts[Len(ts)].price,
   volume |-> SumOver(1..Len(ts), [n \in 1..Len(ts) |-> ts[n].quantity])]

\* C22: the 1-minute candle of a minute (the accumulator, or a candle waiting
\* to be saved) reflects every trade of that minute: open is the first trade's
\* price, high the maximum, low the minimum, close the last trade's price and
\* volume the sum of the quantities, however the trades are grouped in batches.
C22_CandleReflectsEveryTrade ==
  \A c \in ({currentMinuteData} \ {NoMinuteData})
           \cup {pendingSaveQueue[n] : n \in 1..Len(pendingSaveQueue)} :
    c = CandleOf(c.timestamp, MinuteTrades(1, c.timestamp))

\* ---- C23
\* the persisted base candles in the range of the higher-period candle a
BaseInRange(a) ==
  {b \in klineBase : /\ b.timestamp >= a.timestamp
                     /\ b.timestamp < a.timestamp + a.interval * MinuteLen}

\* C23: every persisted higher-period candle (5m, 15m, 1h, 1d) equals the
\* aggregate of the persisted base candles in its range (open of the first,
\* close of the last, highest high, lowest low, summed volume), because the
\* periods covering a base candle are re-aggregated whenever it is persisted
\* or changed.
C23_AggregatesMatchBase ==
  \A a \in klineAggregated :
    LET bs == BaseInRange(a)
    IN /\ bs # {}
       /\ \E f \in bs : (\A o \in bs : f.timestamp <= o.timestamp) /\ a.open = f.open
       /\ \E l \in bs : (\A o \in bs : l.timestamp >= o.timestamp) /\ a.close = l.close
       /\ \A b \in bs : b.high <= a.high /\ b.low >= a.low
       /\ \E b \in bs : b.high = a.high
       /\ \E b \in bs : b.low = a.low
       /\ a.volume = SumOver(bs, [b \in bs |-> b.volume])

\* ---- C24
\* the step is a run of the periodic maintenance task
PeriodicStep == now' = now + MinuteLen

\* the minute-aligned instants from a to b - 1
MinutesFrom(a, b) == {t \in a..(b - 1) : t = minuteOf(t)}

\* the later of two instants
Later(a, b) == IF a >= b THEN a ELSE b

\* C24: the periodic maintenance task, once it has saved the closed
\* accumulators, adds a flat candle (open = high = low = close = close of the
\* last persisted candle, volume 0) for every minute between the last
\* persisted minute and the current minute that is within the last hour
\* (60 minutes), adds nothing else, adds nothing when no candle is persisted,
\* and leaves every candle that was already persisted as it is.
C24_GapFill ==
  [][PeriodicStep =>
       LET saved == flushed(now').klineBase
           currentMinute == minuteOf(now')
       IN IF saved = {} THEN klineBase' = {}
          ELSE \E last \in saved :
                 /\ \A o \in saved : o.timestamp <= last.timestamp
                 /\ klineBase' = saved \cup
                      {[timestamp |-> t, open |-> last.close, high |-> last.close,
                        low |-> last.close, close |-> last.close, volume |-> 0] :
                         t \in MinutesFrom(Later(last.timestamp + MinuteLen,
                                                 currentMinute - 60 * MinuteLen),
                                           currentMinute)}]_vars

\* the periodic task has run after more than an hour without a candle: the
\* last 60 minutes are filled with flat candles, the minutes before them are
\* left without a candle, and the candle persisted before is still there
C24_Witness ==
  /\ Cardinality({b \in klineBase : b.volume = 0}) = 60
  /\ \E b \in klineBase : b.volume > 0 /\ b.timestamp = 0
  /\ \A b \in klineBase : b.timestamp # MinuteLen
  /\ \E b \in klineBase : b.volume = 0 /\ b.timestamp = now - MinuteLen

\* ---- C25
\* the step broadcasts an update for the key
Emits(key) == emitted'[key] # emitted[key]

\* C25: per update key, each request records its payload as the latest one; a
\* flush emits the most recently recorded payload and clears the pending
\* state; the timer that fires first emits and cancels the other, so that no
\* timer of the key is left and a pending window produces exactly one
\* emission (no recorded payload is emitted twice).
C25_OneEmissionPerWindow ==
  /\ [][\A key \in UpdateTypes :
          requests'[key] # requests[key] => lastPayloads'[key] = requests'[key]]_vars
  /\ [][\A key \in UpdateTypes :
          Emits(key) =>
            /\ emitted'[key] = Append(emitted[key], lastPayloads[key])
            /\ lastPayloads'[key] = 0
            /\ \A t \in timers' : t.key # key]_vars
  /\ [](\A key \in UpdateTypes :
          \A m, n \in 1..Len(emitted[key]) : m # n => emitted[key][m] # emitted[key][n])

\* ---- C26
\* an update that observed request n of the key, or a later one, is out
Observed(key, n) ==
  \E m \in 1..Len(emitted[key]) : emitted[key][m] >= n

\* C26: the events emitted for an update key are monotonic in the last
\* request they observed, and no request is lost: after any request an
\* emission that observed it or a later request eventually occurs, also when
\* the request arrives while the flush of an earlier window is in progress.
C26_NoRequestLost ==
  /\ [](\A key \in UpdateTypes :
          \A m, n \in 1..Len(emitted[key]) : m < n => emitted[key][m] <= emitted[key][n])
  /\ \A key \in UpdateTypes : \A n \in 1..MaxRequests :
       [](requests[key] >= n => <>Observed(key, n))

\* ---- C39
\* the batch-trade jobs the handler has run for, with a timestamp in the minute
ProcessedIn(minute) ==
  {b \in 1..Len(tradeQueue) : /\ tradeQueue[b].state = "completed"
                              /\ minuteOf(tradeQueue[b].timestamp) = minute}

\* every job is done, and no candle is left in the accumulator or waiting to
\* be saved
Quiesced ==
  /\ \A b \in 1..Len(tradeQueue) : tradeQueue[b].state = "completed"
  /\ currentMinuteData = NoMinuteData
  /\ pendingSaveQueue = <<>>

\* C39: once processing has quiesced, the persisted base candle of every
\* minute with processed batches has as its volume the sum of the totalVolume
\* of the batches of that minute, also when a batch was processed after the
\* periodic task had flushed and saved the minute's accumulator.
C39_PersistedVolume ==
  Quiesced =>
    \A b \in 1..Len(tradeQueue) :
      LET minute == minuteOf(tradeQueue[b].timestamp)
      IN \E c \in klineBase :
           /\ c.timestamp = minute
           /\ c.volume = SumOver(ProcessedIn(minute),
                                 [j \in ProcessedIn(minute) |-> tradeQueue[j].totalVolume])

\* ---- C31
\* the step hands the accumulator a batch of a later minute
LaterMinuteBatch ==
  /\ currentMinuteData # NoMinuteData
  /\ currentMinuteData' # currentMinuteData
  /\ currentMinuteData' # NoMinuteData
  /\ currentMinuteData'.timestamp > currentMinuteData.timestamp

\* the candles waiting in pendingSaveQueue
Pending == {pendingSaveQueue[n] : n \in 1..Len(pendingSaveQueue)}

\* C31: when a batch of a later minute arrives, the prior accumulator is
\* closed (put aside to be saved) and a new accumulator is opened with the
\* batch alone; a closed accumulator is persisted by the next periodic task
\* as the base candle of its minute, with its open, high, low, close and
\* volume.
C31_ClosedAccumulatorPersisted ==
  /\ [][LaterMinuteBatch =>
          /\ currentMinuteData \in {pendingSaveQueue'[n] : n \in 1..Len(pendingSaveQueue')}
          /\ \E b \in 1..Len(tradeQueue) :
               /\ tradeQueue'[b] # tradeQueue[b]
               /\ currentMinuteData' =
                    [timestamp |-> minuteOf(tradeQueue[b].timestamp),
                     open |-> tradeQueue[b].trades[1].price,
                     high |-> tradeQueue[b].trades[1].price,
                     low |-> tradeQueue[b].trades[1].price,
                     close |-> tradeQueue[b].trades[1].price,
                     volume |-> tradeQueue[b].totalVolume]]_vars
  /\ [][PeriodicStep => \A c \in Pending : c \in klineBase']_vars

\* ---- C38
\* the step hands the accumulator a batch of an earlier minute
EarlierMinuteBatch ==
  /\ currentMinuteData # NoMinuteData
  /\ currentMinuteData' # NoMinuteData
  /\ currentMinuteData'.timestamp < currentMinuteData.timestamp

\* C38: a batch whose timestamp is in an earlier minute than the accumulator
\* (out-of-order delivery, a delayed retry) does not discard the accumulator:
\* what was accumulated for the later minute is kept, in the accumulator or
\* among the candles waiting to be saved, so that it reaches the base candle
\* of its minute.
C38_LateBatchKeepsAccumulator ==
  [][EarlierMinuteBatch =>
       \/ currentMinuteData \in {pendingSaveQueue'[n] : n \in 1..Len(pendingSaveQueue')}
       \/ \E c \in klineBase' : c.timestamp = currentMinuteData.timestamp
                                 /\ c.volume >= currentMinuteData.volume]_vars

\* ---- C32
\* the max-wait timers of the key that are set and not cleared
MaxWaitArmed(key) == {t \in timers : t.key = key /\ t.timer = "maxWait"}

C33_FillAccounting ==
  \A i \in OrderIds :
    /\ orders[i].filledQuantity = TradedQuantity(i)
    /\ orders[i].filledQuantity <= orders[i].quantity
    /\ orders[i].status = "FILLED" <=> orders[i].filledQuantity = orders[i].quantity
    /\ orders[i].status \in {"OPEN", "PENDING"} => orders[i].filledQuantity = 0

\* the row a committing cancelOrder transaction was given by the read before it
CancelledRow == CHOOSE k \in 1..Len(cancels) : cancels' = Remove(cancels, k)

\* the reservation of the owner of committed order o goes down by amount
ReleasedBy(o, amount) ==
  IF o.type = "BUY"
  THEN users'[o.userId].frozenBalance = users[o.userId].frozenBalance - amount
  ELSE positions'[o.userId].frozenQuantity
         = positions[o.userId].frozenQuantity - amount

\* what is left reserved for committed order o
ResidualOf(o) ==
  IF o.status \in Terminal THEN 0
  ELSE IF o.type = "BUY" THEN ResidualCash(o)
  ELSE o.quantity - o.filledQuantity

\* C34: under every interleaving of a cancelOrder with a matching job on the
\* same order, the cancel transaction releases the residual the order has in
\* the committed state it commits on (reservedCash - consumedCash, or
\* quantity - filledQty shares), a committed FILLED order never becomes
\* CANCELLED, and a committed CANCELLED order never receives a fill.
C34_CancelMatchRace ==
  /\ [][(CancelCommits /\ orders'[cancels[CancelledRow].id].status = "CANCELLED") =>
          ReleasedBy(orders[cancels[CancelledRow].id],
                     ResidualOf(orders[cancels[CancelledRow].id]))]_vars
  /\ [][\A i \in OrderIds :
          orders[i].status = "FILLED" => orders'[i].status # "CANCELLED"]_vars
  /\ [][\A i \in OrderIds :
          orders[i].status = "CANCELLED"
            => orders'[i].filledQuantity = orders[i].filledQuantity]_vars

\* ---------------------------------------------------------------- market orders
\* SpecMarket: submissions one at a time and no cancellations, so that every
\* reservation is made on the committed balance, with limit prices up to
\* MaxMarketPrice; the queue consumer keeps taking jobs and every transaction
\* it starts ends (Bull worker, concurrency 1): JobEnd is the MatchCommit step,
\* enabled exactly when a transaction is in flight.
NextMarket ==
  \/ /\ submits = <<>>
     /\ \E u \in Users, t \in OrderTypes, q \in Qtys :
          \/ \E p \in 1..MaxMarketPrice :
               SubmitRead(u, t, "LIMIT", p, q, MaxMarketOrders)
          \/ SubmitRead(u, t, "MARKET", NoPrice, q, MaxMarketOrders)
  \/ \E k \in 1..Len(submits) : SubmitWrite(k)
  \/ \E job \in orderQueue : MatchBegin(job)
  \/ MatchCommit

SpecMarket ==
  /\ Init /\ [][NextMarket]_vars
  /\ WF_vars(\E k \in 1..Len(submits) : SubmitWrite(k))
  /\ WF_vars(\E job \in orderQueue : MatchBegin(job))
  /\ WF_matching(JobEnd)

\* order i is a BUY MARKET order
BuyMarket(i) ==
  /\ i \in OrderIds
  /\ orders[i].type = "BUY"
  /\ orders[i].method = "MARKET"

\* order i is over and nothing of its owner's cash is reserved for it
Settled(i) ==
  /\ i \in OrderIds
  /\ orders[i].status \in Terminal
  /\ (OpenBuysOf(orders[i].userId) = {} /\ submits = <<>>
        => users[orders[i].userId].frozenBalance = 0)

\* C35: every BUY MARKET order eventually is FILLED or CANCELLED with its
\* residual reservation released, also when the cash reserved at submission
\* is less than the cost of the next candidate fill.
C35_BuyMarketTerminates ==
  \A i \in 1..MaxMarketOrders : [](BuyMarket(i) => <>Settled(i))

\* the trades that batch-trade job j describes
BatchTradesOf(j) == {tradeQueue[j].trades[k] : k \in 1..Len(tradeQueue[j].trades)}

\* C36: a batch-trade job exists only for committed trades: every trade of
\* every job in the trade queue is a row of the trades table, also after the
\* matching transaction was rolled back or retried, and no two jobs describe
\* the same trade (a retried job yields one batch, not two).
C36_BatchOnlyForCommitted ==
  /\ \A j \in 1..Len(tradeQueue) :
       \A tr \in BatchTradesOf(j) : \E t \in 1..Len(trades) : trades[t] = tr
  /\ \A i, j \in 1..Len(tradeQueue) :
       i # j => BatchTradesOf(i) \cap BatchTradesOf(j) = {}

\* ---------------------------------------------------------------- batch dedupe
\* SpecDedupe: the trade processor fed with batches whose Date.now() may fall
\* in the same instant; every job is handled once and its handler returns
NextDedupe ==
  \/ \E pq \in BatchTrades : AddBatchTradeProcessingAt(pq, MaxBatches)
  \/ \E j \in 1..Len(tradeQueue) : ProcessBatchTrade(j, "returns")
  \/ Tick

SpecDedupe == Init /\ [][NextDedupe]_vars

\* C37: the dedupe key (symbol, timestamp, number of trades, total volume)
\* identifies a batch: no two batches of the trade queue have the same key, and
\* every batch that was handled had its accumulator update and its
\* tradeCompleted event (none was dropped as the duplicate of another batch).
C37_DedupeKeyUnique ==
  /\ \A i, j \in 1..Len(tradeQueue) :
       i # j => batchIdOf(tradeQueue[i]) # batchIdOf(tradeQueue[j])
  /\ \A j \in 1..Len(tradeQueue) :
       tradeQueue[j].state = "completed"
         => \E e \in 1..Len(tradeCompleted) : tradeCompleted[e].job = j

====
